---------------------------- MODULE Spec2Model ----------------------------
(***************************************************************************)
(* A model of the v6502c emulator: the protected address-range list        *)
(* (addrlist.c) and the CPU interpreter (v6502.c) running over a plain     *)
(* RAM read/write callback pair, as the CPU test harness wires it.         *)
(***************************************************************************)
EXTENDS Integers, Sequences, FiniteSets, TLC

VARIABLES
  ranges,     \* address_range_list: the nodes first..last, in list order
  lastop,     \* the list operation performed last, with its arguments, the list
              \* before it, and the addresses the operations so far cover
  c,          \* the cpu struct: pc a x y sr sp halted reset irq nmi variant
  mem,        \* test_memory: the cells that differ from the memset(0) image
  hist,       \* the harness set-up and the cpu_step calls so far, oldest first: each
              \* with the state it started from, its bus accesses and interrupt frames
  dev,        \* the devices of the machine: the via_t, acia_t and fileio_t
              \* structs, the host streams of the ACIA and the host's FILE handles
  notes       \* what the device operations so far amount to (ticks since a timer
              \* was started, ...), kept for stating properties

vars == <<ranges, lastop, c, mem, hist, dev, notes>>

(***************************************************************************)
(* Widths of the C types.                                                  *)
(***************************************************************************)
ByteMod == 256
AddrMod == 65536

Byte(n) == n % ByteMod
Addr(n) == n % AddrMod

(***************************************************************************)
(* addrlist.c                                                              *)
(***************************************************************************)
MaxListAddr == 2
MaxNodes == 3

\* The addresses the list operations are called with: the bottom of the
\* address space and its top cell, so that start - 1 and end + 1 are
\* exercised at both ends of the 16-bit range.
ListAddrs == (0..MaxListAddr) \cup {AddrMod - 1}

address_range(s, e) == [start |-> s, end |-> e]

InsertAt(list, i, node) ==
  SubSeq(list, 1, i - 1) \o <<node>> \o SubSeq(list, i, Len(list))

DeleteAt(list, i) ==
  SubSeq(list, 1, i - 1) \o SubSeq(list, i + 1, Len(list))

\* The while loop of add_address_range with current at node i.  The
\* comparisons are made in int, so start - 1 may be -1 and end + 1 65536.
RECURSIVE add_scan(_, _, _)
add_scan(list, ar, i) ==
  IF i > Len(list)
  THEN Append(list, ar)
  ELSE LET cur == list[i] IN
       IF ar.end < cur.start - 1
       THEN InsertAt(list, i, ar)
       ELSE IF ar.start > cur.end + 1
       THEN add_scan(list, ar, i + 1)
       ELSE [list EXCEPT ![i] =
               address_range(IF ar.start < cur.start THEN ar.start ELSE cur.start,
                             IF ar.end > cur.end THEN ar.end ELSE cur.end)]

add_address_range(list, ar) == add_scan(list, ar, 1)

\* The while loop of remove_address_range with current at node i.
RECURSIVE remove_scan(_, _, _)
remove_scan(list, ar, i) ==
  IF i > Len(list)
  THEN list
  ELSE LET cur == list[i] IN
       IF ar.end < cur.start
       THEN list
       ELSE IF ar.start > cur.end
       THEN remove_scan(list, ar, i + 1)
       ELSE IF ar.start <= cur.start /\ ar.end >= cur.end
       THEN remove_scan(DeleteAt(list, i), ar, i)
       ELSE IF ar.start > cur.start /\ ar.end < cur.end
       THEN InsertAt([list EXCEPT ![i].end = Addr(ar.start - 1)], i + 1,
                     address_range(Addr(ar.end + 1), cur.end))
       ELSE IF ar.start <= cur.start
       THEN remove_scan([list EXCEPT ![i].start = Addr(ar.end + 1)], ar, i + 1)
       ELSE remove_scan([list EXCEPT ![i].end = Addr(ar.start - 1)], ar, i + 1)

remove_address_range_drops_below(list, ar) ==
  remove_scan(SelectSeq(list, LAMBDA node : node.end >= ar.start), ar, 1)

remove_address_range(list, ar) == remove_scan(list, ar, 1)

is_address_in_range(ar, a) == a >= ar.start /\ a <= ar.end

is_address_in_range_list(list, a) ==
  \E i \in 1..Len(list) : is_address_in_range(list[i], a)

init_address_range_list == <<>>

(***************************************************************************)
(* v6502.h / v6502.c: constants and bit helpers                            *)
(***************************************************************************)
IRQ_VECTOR == 65534
RESET_VECTOR == 65532
NMI_VECTOR == 65530

CARRY_FLAG == 0
ZERO_FLAG == 1
IRQ_DISABLE == 2
BCD_FLAG == 3
BREAK_FLAG == 4
OVERFLOW_FLAG == 6
NEGATIVE_FLAG == 7

Pow2(n) == 2 ^ n
Bit(v, n) == (v \div Pow2(n)) % 2

\* C's & | ^ on non-negative ints, bit by bit.
RECURSIVE BitOp(_, _, _)
BitOp(op, u, v) ==
  IF u = 0 /\ v = 0
  THEN 0
  ELSE LET p == u % 2
           q == v % 2
           r == CASE op = "and" -> p * q
                  [] op = "or"  -> IF p + q > 0 THEN 1 ELSE 0
                  [] op = "xor" -> (p + q) % 2
       IN r + 2 * BitOp(op, u \div 2, v \div 2)

BitAnd(u, v) == BitOp("and", u, v)
BitOr(u, v) == BitOp("or", u, v)
BitXor(u, v) == BitOp("xor", u, v)

_set_bit(m, bit) == [m EXCEPT !.sr = BitOr(@, Pow2(bit))]
_clear_bit(m, bit) == [m EXCEPT !.sr = BitAnd(@, ByteMod - 1 - Pow2(bit))]
_check_bit(m, bit) == BitAnd(m.sr, Pow2(bit)) # 0

_set_zero_flag(m, value) ==
  IF value = 0 THEN _set_bit(m, ZERO_FLAG) ELSE _clear_bit(m, ZERO_FLAG)

_set_negative_flag(m, value) ==
  IF BitAnd(value, Pow2(7)) # 0
  THEN _set_bit(m, NEGATIVE_FLAG)
  ELSE _clear_bit(m, NEGATIVE_FLAG)

_set_nz(m, value) == _set_negative_flag(_set_zero_flag(m, value), value)

(***************************************************************************)
(* The memory callbacks of the test harness: a 64K array, zeroed.          *)
(* A machine state m carries the cpu fields, mem, and the notes bus,        *)
(* frames and polled that record what the step did.                        *)
(***************************************************************************)
test_read(memory, a) == IF a \in DOMAIN memory THEN memory[a] ELSE 0

test_write(memory, a, b) ==
  [k \in (DOMAIN memory \ {a}) \cup (IF b # 0 THEN {a} ELSE {}) |->
     IF k = a THEN b ELSE memory[k]]

\* cpu_read_byte returns the value; its call of c->read is logged by Reading.
cpu_read_byte(m, a) == test_read(m.mem, Addr(a))
Reading(m, a) == [m EXCEPT !.bus = Append(@, <<"r", Addr(a)>>)]

cpu_write_byte_twice(m, a, b) ==
  [m EXCEPT !.mem = test_write(@, Addr(a), b),
            !.bus = @ \o <<<<"w", Addr(a), b>>, <<"w", Addr(a), b>>>>]

cpu_write_byte(m, a, b) ==
  [m EXCEPT !.mem = test_write(@, Addr(a), b),
            !.bus = Append(@, <<"w", Addr(a), b>>)]

\* cpu_read_address: lo = read(a++), hi = read(a++), a of type address.
cpu_read_address(m, a) ==
  cpu_read_byte(m, Addr(a + 1)) * ByteMod + cpu_read_byte(m, a)
\* cpu_write_address: lo = (byte) value; hi = (byte) value >> 8, where the
\* cast applies before the shift; hi is written at a, lo at a + 1.
cpu_write_address(m, a, value) ==
  LET lo == value % ByteMod
      hi == (value % ByteMod) \div ByteMod
  IN cpu_write_byte(cpu_write_byte(m, a, hi), Addr(a + 1), lo)

ReadingAddress(m, a) == Reading(Reading(m, a), Addr(a + 1))

\* _push decrementing before it writes.
_push_decrement_first(m, value) ==
  [cpu_write_byte(m, 256 + Byte(m.sp + ByteMod - 1), value)
     EXCEPT !.sp = Byte(m.sp + ByteMod - 1)]

_push(m, value) ==
  [cpu_write_byte(m, 256 + m.sp, value) EXCEPT !.sp = Byte(m.sp + ByteMod - 1)]

\* _pop: the state after sp++ and the read; the value read is Popped of that state.
_pop(m) == Reading([m EXCEPT !.sp = Byte(@ + 1)], 256 + Byte(m.sp + 1))
Popped(m) == cpu_read_byte(m, 256 + m.sp)

_is_store(i) == i \in {"STA", "STX", "STY"}

\* _reset leaving the interrupt latches as they were.
_reset_keeps_latches(m) ==
  [ReadingAddress(m, RESET_VECTOR) EXCEPT
     !.pc = cpu_read_address(m, RESET_VECTOR),
     !.a = 0, !.x = 0, !.y = 0,
     !.sr = 54,
     !.sp = 253,
     !.halted = FALSE, !.reset = FALSE]

_reset(m) ==
  [ReadingAddress(m, RESET_VECTOR) EXCEPT
     !.pc = cpu_read_address(m, RESET_VECTOR),
     !.a = 0, !.x = 0, !.y = 0,
     !.sr = 54,
     !.sp = 253,
     !.halted = FALSE, !.reset = FALSE, !.irq = FALSE, !.nmi = FALSE]

\* _service_interrupt pushing the low byte of PC before the high byte.
_service_interrupt_lo_first(m, vector, is_brk) ==
  LET hi == Byte(m.pc \div ByteMod)
      lo == BitAnd(m.pc, 255)
      m1 == _push(m, lo)
      m2 == _push(m1, hi)
      sr5 == BitOr(m.sr, Pow2(5))
      pushed_sr == IF is_brk
                   THEN BitOr(sr5, Pow2(BREAK_FLAG))
                   ELSE BitAnd(sr5, ByteMod - 1 - Pow2(BREAK_FLAG))
      m3 == _push(m2, pushed_sr)
      m4 == _set_bit(m3, IRQ_DISABLE)
      m5 == [ReadingAddress(m4, vector) EXCEPT !.pc = cpu_read_address(m4, vector)]
  IN [m5 EXCEPT !.frames = Append(@,
         [vector |-> vector, is_brk |-> is_brk,
          pc |-> m.pc, sp |-> m.sp, sr |-> m.sr,
          pc_after |-> m5.pc, sp_after |-> m5.sp, sr_after |-> m5.sr,
          mem_after |-> m5.mem])]

\* _service_interrupt leaving the live break bit in the byte it pushes for
\* IRQ and NMI.
_service_interrupt_live_break(m, vector, is_brk) ==
  LET hi == Byte(m.pc \div ByteMod)
      lo == BitAnd(m.pc, 255)
      m1 == _push(m, hi)
      m2 == _push(m1, lo)
      sr5 == BitOr(m.sr, Pow2(5))
      pushed_sr == IF is_brk THEN BitOr(sr5, Pow2(BREAK_FLAG)) ELSE sr5
      m3 == _push(m2, pushed_sr)
      m4 == _set_bit(m3, IRQ_DISABLE)
      m5 == [ReadingAddress(m4, vector) EXCEPT !.pc = cpu_read_address(m4, vector)]
  IN [m5 EXCEPT !.frames = Append(@,
         [vector |-> vector, is_brk |-> is_brk,
          pc |-> m.pc, sp |-> m.sp, sr |-> m.sr,
          pc_after |-> m5.pc, sp_after |-> m5.sp, sr_after |-> m5.sr,
          mem_after |-> m5.mem])]

\* _service_interrupt, which also notes in frames the state it was entered
\* with and the state it leaves.
_service_interrupt(m, vector, is_brk) ==
  LET hi == Byte(m.pc \div ByteMod)
      lo == BitAnd(m.pc, 255)
      m1 == _push(m, hi)
      m2 == _push(m1, lo)
      sr5 == BitOr(m.sr, Pow2(5))
      pushed_sr == IF is_brk
                   THEN BitOr(sr5, Pow2(BREAK_FLAG))
                   ELSE BitAnd(sr5, ByteMod - 1 - Pow2(BREAK_FLAG))
      m3 == _push(m2, pushed_sr)
      m4 == _set_bit(m3, IRQ_DISABLE)
      m5 == [ReadingAddress(m4, vector) EXCEPT !.pc = cpu_read_address(m4, vector)]
  IN [m5 EXCEPT !.frames = Append(@,
         [vector |-> vector, is_brk |-> is_brk,
          pc |-> m.pc, sp |-> m.sp, sr |-> m.sr,
          pc_after |-> m5.pc, sp_after |-> m5.sp, sr_after |-> m5.sr,
          mem_after |-> m5.mem])]

\* cpu_next_byte / cpu_next_address: the state after the fetch; the value
\* fetched is next_byte / next_address of the state before it.
next_byte(m) == cpu_read_byte(m, m.pc)
cpu_next_byte(m) == [Reading(m, m.pc) EXCEPT !.pc = Addr(@ + 1)]
next_address(m) == cpu_read_address(m, m.pc)
cpu_next_address(m) == [ReadingAddress(m, m.pc) EXCEPT !.pc = Addr(@ + 2)]

\* (signed char) of a byte.
SignedChar(v) == IF v >= 128 THEN v - ByteMod ELSE v

\* "if (!_is_store(instruction)) b = cpu_read_byte(c, a);" with b0 the value
\* b holds otherwise (the opcode byte).
operand_at(m, instruction, a, b0) ==
  IF _is_store(instruction)
  THEN [m |-> m, a |-> a, b |-> b0]
  ELSE [m |-> Reading(m, a), a |-> a, b |-> cpu_read_byte(m, a)]

\* The addressing switch with zero-page,X not wrapped to page zero.
load_data_zpx_no_wrap(m, instruction, addressing, b0) ==
  CASE addressing = "ACC" -> [m |-> m, a |-> 0, b |-> m.a]
    [] addressing = "ABS" ->
         operand_at(cpu_next_address(m), instruction, next_address(m), b0)
    [] addressing = "ABX" ->
         operand_at(cpu_next_address(m), instruction, Addr(next_address(m) + m.x), b0)
    [] addressing = "ABY" ->
         operand_at(cpu_next_address(m), instruction, Addr(next_address(m) + m.y), b0)
    [] addressing = "IMM" -> [m |-> cpu_next_byte(m), a |-> 0, b |-> next_byte(m)]
    [] addressing = "IND" ->
         LET m1 == cpu_next_address(m)
             p == next_address(m)
         IN [m |-> ReadingAddress(m1, p), a |-> cpu_read_address(m1, p), b |-> b0]
    [] addressing = "INX" ->
         LET m1 == cpu_next_byte(m)
             z == BitAnd(next_byte(m) + m.x, 255)
             z1 == BitAnd(z + 1, 255)
             m2 == Reading(Reading(m1, z), z1)
         IN operand_at(m2, instruction,
                       cpu_read_byte(m1, z1) * ByteMod + cpu_read_byte(m1, z), b0)
    [] addressing = "INY" ->
         LET m1 == cpu_next_byte(m)
             z == next_byte(m)
             z1 == BitAnd(z + 1, 255)
             m2 == Reading(Reading(m1, z), z1)
         IN operand_at(m2, instruction,
                       Addr(cpu_read_byte(m1, z1) * ByteMod + cpu_read_byte(m1, z) + m.y),
                       b0)
    [] addressing = "REL" ->
         LET m1 == cpu_next_byte(m)
         IN [m |-> m1, a |-> Addr(m1.pc + SignedChar(next_byte(m)) + AddrMod), b |-> b0]
    [] addressing = "ZPG" ->
         operand_at(cpu_next_byte(m), instruction, next_byte(m), b0)
    [] addressing = "ZPX" ->
         operand_at(cpu_next_byte(m), instruction, next_byte(m) + m.x, b0)
    [] addressing = "ZPY" ->
         operand_at(cpu_next_byte(m), instruction, BitAnd(next_byte(m) + m.y, 255), b0)
    [] addressing = "ZPI" ->
         LET m1 == cpu_next_byte(m)
             z == next_byte(m)
         IN operand_at(ReadingAddress(m1, z), instruction, cpu_read_address(m1, z), b0)
    [] addressing = "ABI" ->
         LET m1 == cpu_next_address(m)
             p == Addr(next_address(m) + m.x)
         IN [m |-> ReadingAddress(m1, p), a |-> cpu_read_address(m1, p), b |-> b0]
    [] OTHER -> [m |-> m, a |-> 0, b |-> b0]

\* The addressing switch of cpu_step ("load data"): the state after the
\* operand fetches, the effective address a and the operand value b.
load_data(m, instruction, addressing, b0) ==
  CASE addressing = "ACC" -> [m |-> m, a |-> 0, b |-> m.a]
    [] addressing = "ABS" ->
         operand_at(cpu_next_address(m), instruction, next_address(m), b0)
    [] addressing = "ABX" ->
         operand_at(cpu_next_address(m), instruction, Addr(next_address(m) + m.x), b0)
    [] addressing = "ABY" ->
         operand_at(cpu_next_address(m), instruction, Addr(next_address(m) + m.y), b0)
    [] addressing = "IMM" -> [m |-> cpu_next_byte(m), a |-> 0, b |-> next_byte(m)]
    [] addressing = "IND" ->
         LET m1 == cpu_next_address(m)
             p == next_address(m)
         IN [m |-> ReadingAddress(m1, p), a |-> cpu_read_address(m1, p), b |-> b0]
    [] addressing = "INX" ->
         LET m1 == cpu_next_byte(m)
             z == BitAnd(next_byte(m) + m.x, 255)
             z1 == BitAnd(z + 1, 255)
             m2 == Reading(Reading(m1, z), z1)
         IN operand_at(m2, instruction,
                       cpu_read_byte(m1, z1) * ByteMod + cpu_read_byte(m1, z), b0)
    [] addressing = "INY" ->
         LET m1 == cpu_next_byte(m)
             z == next_byte(m)
             z1 == BitAnd(z + 1, 255)
             m2 == Reading(Reading(m1, z), z1)
         IN operand_at(m2, instruction,
                       Addr(cpu_read_byte(m1, z1) * ByteMod + cpu_read_byte(m1, z) + m.y),
                       b0)
    [] addressing = "REL" ->
         LET m1 == cpu_next_byte(m)
         IN [m |-> m1, a |-> Addr(m1.pc + SignedChar(next_byte(m)) + AddrMod), b |-> b0]
    [] addressing = "ZPG" ->
         operand_at(cpu_next_byte(m), instruction, next_byte(m), b0)
    [] addressing = "ZPX" ->
         operand_at(cpu_next_byte(m), instruction, BitAnd(next_byte(m) + m.x, 255), b0)
    [] addressing = "ZPY" ->
         operand_at(cpu_next_byte(m), instruction, BitAnd(next_byte(m) + m.y, 255), b0)
    [] addressing = "ZPI" ->
         LET m1 == cpu_next_byte(m)
             z == next_byte(m)
         IN operand_at(ReadingAddress(m1, z), instruction, cpu_read_address(m1, z), b0)
    [] addressing = "ABI" ->
         LET m1 == cpu_next_address(m)
             p == Addr(next_address(m) + m.x)
         IN [m |-> ReadingAddress(m1, p), a |-> cpu_read_address(m1, p), b |-> b0]
    [] OTHER -> [m |-> m, a |-> 0, b |-> b0]

(***************************************************************************)
(* The instruction switch of cpu_step.                                     *)
(***************************************************************************)
carry_if(m, cond) == IF cond THEN _set_bit(m, CARRY_FLAG) ELSE _clear_bit(m, CARRY_FLAG)
overflow_if(m, cond) ==
  IF cond THEN _set_bit(m, OVERFLOW_FLAG) ELSE _clear_bit(m, OVERFLOW_FLAG)

\* An int as the 16 low bits of its two's complement, for & and ^.
Bits16(n) == n % AddrMod

\* ADC with the binary carry taken from result >= 0xFF.
I_ADC_carry_from_255(m, b) ==
  LET carry_in == IF _check_bit(m, CARRY_FLAG) THEN 1 ELSE 0 IN
  IF _check_bit(m, BCD_FLAG)
  THEN LET lo0 == BitAnd(m.a, 15) + BitAnd(b, 15) + carry_in
           hi0 == (m.a \div 16) + (b \div 16)
           binary_result == m.a + b + carry_in
           lo_nibble == IF lo0 > 9 THEN lo0 + 6 ELSE lo0
           hi1 == IF lo0 > 9 THEN hi0 + 1 ELSE hi0
           hi_nibble == IF hi1 > 9 THEN hi1 + 6 ELSE hi1
           m1 == carry_if(m, hi1 > 9)
           m2 == [m1 EXCEPT !.a = BitAnd(hi_nibble, 15) * 16 + BitAnd(lo_nibble, 15)]
           m3 == _set_negative_flag(_set_zero_flag(m2, BitAnd(binary_result, 255)),
                                    Byte(binary_result))
       IN IF m.variant = "CPU_65C02"
          THEN overflow_if(m3, BitAnd(BitAnd(BitXor(m.a, binary_result),
                                             BitXor(b, binary_result)), 128) # 0)
          ELSE _clear_bit(m3, OVERFLOW_FLAG)
  ELSE LET result == m.a + b + carry_in
           m1 == carry_if(m, result >= 255)
           m2 == overflow_if(m1, BitAnd(BitAnd(BitXor(m.a, result),
                                               BitXor(b, result)), 128) # 0)
           m3 == [m2 EXCEPT !.a = BitAnd(result, 255)]
       IN _set_nz(m3, m3.a)

\* ADC computing the decimal V on both variants.
I_ADC_decimal_v_any_variant(m, b) ==
  LET carry_in == IF _check_bit(m, CARRY_FLAG) THEN 1 ELSE 0 IN
  IF _check_bit(m, BCD_FLAG)
  THEN LET lo0 == BitAnd(m.a, 15) + BitAnd(b, 15) + carry_in
           hi0 == (m.a \div 16) + (b \div 16)
           binary_result == m.a + b + carry_in
           lo_nibble == IF lo0 > 9 THEN lo0 + 6 ELSE lo0
           hi1 == IF lo0 > 9 THEN hi0 + 1 ELSE hi0
           hi_nibble == IF hi1 > 9 THEN hi1 + 6 ELSE hi1
           m1 == carry_if(m, hi1 > 9)
           m2 == [m1 EXCEPT !.a = BitAnd(hi_nibble, 15) * 16 + BitAnd(lo_nibble, 15)]
           m3 == _set_negative_flag(_set_zero_flag(m2, BitAnd(binary_result, 255)),
                                    Byte(binary_result))
       IN IF TRUE
          THEN overflow_if(m3, BitAnd(BitAnd(BitXor(m.a, binary_result),
                                             BitXor(b, binary_result)), 128) # 0)
          ELSE _clear_bit(m3, OVERFLOW_FLAG)
  ELSE LET result == m.a + b + carry_in
           m1 == carry_if(m, result > 255)
           m2 == overflow_if(m1, BitAnd(BitAnd(BitXor(m.a, result),
                                               BitXor(b, result)), 128) # 0)
           m3 == [m2 EXCEPT !.a = BitAnd(result, 255)]
       IN _set_nz(m3, m3.a)

\* ADC whose decimal low-nibble adjustment does not carry into the high nibble.
I_ADC_no_nibble_carry(m, b) ==
  LET carry_in == IF _check_bit(m, CARRY_FLAG) THEN 1 ELSE 0 IN
  IF _check_bit(m, BCD_FLAG)
  THEN LET lo0 == BitAnd(m.a, 15) + BitAnd(b, 15) + carry_in
           hi0 == (m.a \div 16) + (b \div 16)
           binary_result == m.a + b + carry_in
           lo_nibble == IF lo0 > 9 THEN lo0 + 6 ELSE lo0
           hi1 == hi0
           hi_nibble == IF hi1 > 9 THEN hi1 + 6 ELSE hi1
           m1 == carry_if(m, hi1 > 9)
           m2 == [m1 EXCEPT !.a = BitAnd(hi_nibble, 15) * 16 + BitAnd(lo_nibble, 15)]
           m3 == _set_negative_flag(_set_zero_flag(m2, BitAnd(binary_result, 255)),
                                    Byte(binary_result))
       IN IF m.variant = "CPU_65C02"
          THEN overflow_if(m3, BitAnd(BitAnd(BitXor(m.a, binary_result),
                                             BitXor(b, binary_result)), 128) # 0)
          ELSE _clear_bit(m3, OVERFLOW_FLAG)
  ELSE LET result == m.a + b + carry_in
           m1 == carry_if(m, result > 255)
           m2 == overflow_if(m1, BitAnd(BitAnd(BitXor(m.a, result),
                                               BitXor(b, result)), 128) # 0)
           m3 == [m2 EXCEPT !.a = BitAnd(result, 255)]
       IN _set_nz(m3, m3.a)

I_ADC(m, b) ==
  LET carry_in == IF _check_bit(m, CARRY_FLAG) THEN 1 ELSE 0 IN
  IF _check_bit(m, BCD_FLAG)
  THEN LET lo0 == BitAnd(m.a, 15) + BitAnd(b, 15) + carry_in
           hi0 == (m.a \div 16) + (b \div 16)
           binary_result == m.a + b + carry_in
           lo_nibble == IF lo0 > 9 THEN lo0 + 6 ELSE lo0
           hi1 == IF lo0 > 9 THEN hi0 + 1 ELSE hi0
           hi_nibble == IF hi1 > 9 THEN hi1 + 6 ELSE hi1
           m1 == carry_if(m, hi1 > 9)
           m2 == [m1 EXCEPT !.a = BitAnd(hi_nibble, 15) * 16 + BitAnd(lo_nibble, 15)]
           m3 == _set_negative_flag(_set_zero_flag(m2, BitAnd(binary_result, 255)),
                                    Byte(binary_result))
       IN IF m.variant = "CPU_65C02"
          THEN overflow_if(m3, BitAnd(BitAnd(BitXor(m.a, binary_result),
                                             BitXor(b, binary_result)), 128) # 0)
          ELSE _clear_bit(m3, OVERFLOW_FLAG)
  ELSE LET result == m.a + b + carry_in
           m1 == carry_if(m, result > 255)
           m2 == overflow_if(m1, BitAnd(BitAnd(BitXor(m.a, result),
                                               BitXor(b, result)), 128) # 0)
           m3 == [m2 EXCEPT !.a = BitAnd(result, 255)]
       IN _set_nz(m3, m3.a)

\* SBC with the binary carry taken from result > 0.
I_SBC_carry_positive(m, b) ==
  LET borrow == 1 - (IF _check_bit(m, CARRY_FLAG) THEN 1 ELSE 0) IN
  IF _check_bit(m, BCD_FLAG)
  THEN LET lo0 == BitAnd(m.a, 15) - BitAnd(b, 15) - borrow
           hi0 == (m.a \div 16) - (b \div 16)
           binary_result == m.a - b - borrow
           lo_nibble == IF lo0 < 0 THEN lo0 + 10 ELSE lo0
           hi1 == IF lo0 < 0 THEN hi0 - 1 ELSE hi0
           hi_nibble == IF hi1 < 0 THEN hi1 + 10 ELSE hi1
           m1 == carry_if(m, ~(hi1 < 0))
           m2 == [m1 EXCEPT !.a = BitAnd(Bits16(hi_nibble), 15) * 16
                                  + BitAnd(Bits16(lo_nibble), 15)]
           m3 == _set_negative_flag(
                   _set_zero_flag(m2, BitAnd(Bits16(binary_result), 255)),
                   Byte(binary_result))
       IN IF m.variant = "CPU_65C02"
          THEN overflow_if(m3, BitAnd(BitAnd(BitXor(m.a, b),
                                             BitXor(m.a, Bits16(binary_result))), 128) # 0)
          ELSE _clear_bit(m3, OVERFLOW_FLAG)
  ELSE LET result == m.a - b - borrow
           m1 == carry_if(m, result > 0)
           m2 == overflow_if(m1, BitAnd(BitAnd(BitXor(m.a, b),
                                               BitXor(m.a, Bits16(result))), 128) # 0)
           m3 == [m2 EXCEPT !.a = BitAnd(Bits16(result), 255)]
       IN _set_nz(m3, m3.a)

I_SBC(m, b) ==
  LET borrow == 1 - (IF _check_bit(m, CARRY_FLAG) THEN 1 ELSE 0) IN
  IF _check_bit(m, BCD_FLAG)
  THEN LET lo0 == BitAnd(m.a, 15) - BitAnd(b, 15) - borrow
           hi0 == (m.a \div 16) - (b \div 16)
           binary_result == m.a - b - borrow
           lo_nibble == IF lo0 < 0 THEN lo0 + 10 ELSE lo0
           hi1 == IF lo0 < 0 THEN hi0 - 1 ELSE hi0
           hi_nibble == IF hi1 < 0 THEN hi1 + 10 ELSE hi1
           m1 == carry_if(m, ~(hi1 < 0))
           m2 == [m1 EXCEPT !.a = BitAnd(Bits16(hi_nibble), 15) * 16
                                  + BitAnd(Bits16(lo_nibble), 15)]
           m3 == _set_negative_flag(
                   _set_zero_flag(m2, BitAnd(Bits16(binary_result), 255)),
                   Byte(binary_result))
       IN IF m.variant = "CPU_65C02"
          THEN overflow_if(m3, BitAnd(BitAnd(BitXor(m.a, b),
                                             BitXor(m.a, Bits16(binary_result))), 128) # 0)
          ELSE _clear_bit(m3, OVERFLOW_FLAG)
  ELSE LET result == m.a - b - borrow
           m1 == carry_if(m, result >= 0)
           m2 == overflow_if(m1, BitAnd(BitAnd(BitXor(m.a, b),
                                               BitXor(m.a, Bits16(result))), 128) # 0)
           m3 == [m2 EXCEPT !.a = BitAnd(Bits16(result), 255)]
       IN _set_nz(m3, m3.a)

\* The write-back of the shifts and rotates.
shift_store(m, addressing, a, b) ==
  _set_nz(IF addressing = "ACC" THEN [m EXCEPT !.a = b] ELSE cpu_write_byte(m, a, b), b)

\* CMP, CPX, CPY against register value r.
compare(m, r, b) == _set_nz(carry_if(m, r >= b), Byte(r - b + ByteMod))

branch_if(m, cond, a) == IF cond THEN [m EXCEPT !.pc = a] ELSE m

I_BRK(m) == _service_interrupt([m EXCEPT !.pc = Addr(@ + 1)], IRQ_VECTOR, TRUE)

I_JSR(m, a) ==
  LET m0 == [m EXCEPT !.pc = Addr(@ + AddrMod - 1)]
      hi == Byte(m0.pc \div ByteMod)
      lo == BitAnd(m0.pc, 255)
  IN [_push(_push(m0, hi), lo) EXCEPT !.pc = a]

\* RTS without the + 1.
I_RTS_no_increment(m) ==
  LET m1 == _pop(m)
      lo == Popped(m1)
      m2 == _pop(m1)
      hi == Popped(m2)
  IN [m2 EXCEPT !.pc = BitOr(hi * ByteMod, lo)]

I_RTS(m) ==
  LET m1 == _pop(m)
      lo == Popped(m1)
      m2 == _pop(m1)
      hi == Popped(m2)
  IN [m2 EXCEPT !.pc = Addr(BitOr(hi * ByteMod, lo) + 1)]

I_PHA(m) == _push(m, m.a)

\* PHP pushing the break flag but not bit 5.
I_PHP_live_bit5(m) == _push(m, BitOr(m.sr, Pow2(BREAK_FLAG)))

I_PHP(m) == _push(m, BitOr(BitOr(m.sr, Pow2(BREAK_FLAG)), Pow2(5)))

I_PLA(m) ==
  LET m1 == _pop(m)
      m2 == [m1 EXCEPT !.a = Popped(m1)]
  IN _set_nz(m2, m2.a)

\* "b = c->sr; c->sr = _pop(c);" and the two bits taken back from b.
pull_sr(m) ==
  LET b == m.sr
      m1 == _pop(m)
      m2 == [m1 EXCEPT !.sr = Popped(m1)]
      m3 == IF BitAnd(b, Pow2(BREAK_FLAG)) # 0
            THEN _set_bit(m2, BREAK_FLAG) ELSE _clear_bit(m2, BREAK_FLAG)
  IN IF BitAnd(b, Pow2(5)) # 0 THEN _set_bit(m3, 5) ELSE _clear_bit(m3, 5)

I_PLP(m) == pull_sr(m)

\* RTI taking the popped status byte as it is.
I_RTI_raw_sr(m) ==
  LET m0 == _pop(m)
      m1 == _pop([m0 EXCEPT !.sr = Popped(m0)])
      lo == Popped(m1)
      m2 == _pop(m1)
      hi == Popped(m2)
  IN [m2 EXCEPT !.pc = BitOr(hi * ByteMod, lo)]

I_RTI(m) ==
  LET m0 == pull_sr(m)
      m1 == _pop(m0)
      lo == Popped(m1)
      m2 == _pop(m1)
      hi == Popped(m2)
  IN [m2 EXCEPT !.pc = BitOr(hi * ByteMod, lo)]

\* Every other case of the switch; an instruction it has no case for does
\* nothing (default).
execute(m, instruction, addressing, a, b) ==
  CASE instruction = "ADC" -> I_ADC(m, b)
    [] instruction = "SBC" -> I_SBC(m, b)
    [] instruction = "AND" -> LET m1 == [m EXCEPT !.a = BitAnd(m.a, b)] IN _set_nz(m1, m1.a)
    [] instruction = "ORA" -> LET m1 == [m EXCEPT !.a = BitOr(m.a, b)] IN _set_nz(m1, m1.a)
    [] instruction = "EOR" -> LET m1 == [m EXCEPT !.a = BitXor(m.a, b)] IN _set_nz(m1, m1.a)
    [] instruction = "ASL" ->
         shift_store(carry_if(m, BitAnd(b, 128) # 0), addressing, a, Byte(b * 2))
    [] instruction = "LSR" ->
         shift_store(carry_if(m, BitAnd(b, 1) # 0), addressing, a, b \div 2)
    [] instruction = "ROL" ->
         shift_store(carry_if(m, BitAnd(b, 128) # 0), addressing, a,
                     IF _check_bit(m, CARRY_FLAG)
                     THEN BitOr(Byte(b * 2), 1) ELSE Byte(b * 2))
    [] instruction = "ROR" ->
         shift_store(carry_if(m, BitAnd(b, 1) # 0), addressing, a,
                     IF _check_bit(m, CARRY_FLAG)
                     THEN BitOr(b \div 2, 128) ELSE b \div 2)
    [] instruction = "BCC" -> branch_if(m, ~_check_bit(m, CARRY_FLAG), a)
    [] instruction = "BCS" -> branch_if(m, _check_bit(m, CARRY_FLAG), a)
    [] instruction = "BEQ" -> branch_if(m, _check_bit(m, ZERO_FLAG), a)
    [] instruction = "BNE" -> branch_if(m, ~_check_bit(m, ZERO_FLAG), a)
    [] instruction = "BMI" -> branch_if(m, _check_bit(m, NEGATIVE_FLAG), a)
    [] instruction = "BPL" -> branch_if(m, ~_check_bit(m, NEGATIVE_FLAG), a)
    [] instruction = "BVC" -> branch_if(m, ~_check_bit(m, OVERFLOW_FLAG), a)
    [] instruction = "BVS" -> branch_if(m, _check_bit(m, OVERFLOW_FLAG), a)
    [] instruction = "BIT" ->
         LET m1 == IF BitAnd(b, 128) # 0 THEN _set_bit(m, 7) ELSE _clear_bit(m, 7)
             m2 == IF BitAnd(b, 64) # 0 THEN _set_bit(m1, 6) ELSE _clear_bit(m1, 6)
         IN _set_zero_flag(m2, BitAnd(m.a, b))
    [] instruction = "BRK" -> I_BRK(m)
    [] instruction = "CLC" -> _clear_bit(m, CARRY_FLAG)
    [] instruction = "CLD" -> _clear_bit(m, BCD_FLAG)
    [] instruction = "CLI" -> _clear_bit(m, IRQ_DISABLE)
    [] instruction = "CLV" -> _clear_bit(m, OVERFLOW_FLAG)
    [] instruction = "SEC" -> _set_bit(m, CARRY_FLAG)
    [] instruction = "SED" -> _set_bit(m, BCD_FLAG)
    [] instruction = "SEI" -> _set_bit(m, IRQ_DISABLE)
    [] instruction = "CMP" -> compare(m, m.a, b)
    [] instruction = "CPX" -> compare(m, m.x, b)
    [] instruction = "CPY" -> compare(m, m.y, b)
    [] instruction = "DEC" ->
         _set_nz(cpu_write_byte(m, a, Byte(b + ByteMod - 1)), Byte(b + ByteMod - 1))
    [] instruction = "INC" -> _set_nz(cpu_write_byte(m, a, Byte(b + 1)), Byte(b + 1))
    [] instruction = "DEX" ->
         LET m1 == [m EXCEPT !.x = Byte(@ + ByteMod - 1)] IN _set_nz(m1, m1.x)
    [] instruction = "DEY" ->
         LET m1 == [m EXCEPT !.y = Byte(@ + ByteMod - 1)] IN _set_nz(m1, m1.y)
    [] instruction = "INX" -> LET m1 == [m EXCEPT !.x = Byte(@ + 1)] IN _set_nz(m1, m1.x)
    [] instruction = "INY" -> LET m1 == [m EXCEPT !.y = Byte(@ + 1)] IN _set_nz(m1, m1.y)
    [] instruction = "JMP" -> [m EXCEPT !.pc = a]
    [] instruction = "JSR" -> I_JSR(m, a)
    [] instruction = "LDA" -> LET m1 == [m EXCEPT !.a = b] IN _set_nz(m1, m1.a)
    [] instruction = "LDX" -> LET m1 == [m EXCEPT !.x = b] IN _set_nz(m1, m1.x)
    [] instruction = "LDY" -> LET m1 == [m EXCEPT !.y = b] IN _set_nz(m1, m1.y)
    [] instruction = "PHA" -> I_PHA(m)
    [] instruction = "PHP" -> I_PHP(m)
    [] instruction = "PLA" -> I_PLA(m)
    [] instruction = "PLP" -> I_PLP(m)
    [] instruction = "RTI" -> I_RTI(m)
    [] instruction = "RTS" -> I_RTS(m)
    [] instruction = "STA" -> cpu_write_byte(m, a, m.a)
    [] instruction = "STX" -> cpu_write_byte(m, a, m.x)
    [] instruction = "STY" -> cpu_write_byte(m, a, m.y)
    [] instruction = "TAX" -> LET m1 == [m EXCEPT !.x = m.a] IN _set_nz(m1, m1.x)
    [] instruction = "TAY" -> LET m1 == [m EXCEPT !.y = m.a] IN _set_nz(m1, m1.y)
    [] instruction = "TSX" -> LET m1 == [m EXCEPT !.x = m.sp] IN _set_nz(m1, m1.x)
    [] instruction = "TXA" -> LET m1 == [m EXCEPT !.a = m.x] IN _set_nz(m1, m1.a)
    [] instruction = "TXS" -> [m EXCEPT !.sp = m.x]
    [] instruction = "TYA" -> LET m1 == [m EXCEPT !.a = m.y] IN _set_nz(m1, m1.a)
    [] OTHER -> m

\* inst.h: the two decode tables, indexed by opcode (entry k + 1 is opcode k).
instructions == <<
  "BRK", "ORA", "NOP", "NOP", "TSB", "ORA", "ASL", "RMB0",
  "PHP", "ORA", "ASL", "NOP", "TSB", "ORA", "ASL", "BBR0",
  "BPL", "ORA", "ORA", "NOP", "TRB", "ORA", "ASL", "RMB1",
  "CLC", "ORA", "INC", "TRB", "TRB", "ORA", "ASL", "BBR1",
  "JSR", "AND", "NOP", "NOP", "BIT", "AND", "ROL", "RMB2",
  "PHP", "AND", "ROL", "NOP", "BIT", "AND", "ROL", "BBR2",
  "BMI", "AND", "AND", "NOP", "BIT", "AND", "ROL", "RMB3",
  "SEC", "AND", "DEC", "NOP", "BIT", "AND", "ROL", "BBR3",
  "RTI", "EOR", "NOP", "NOP", "NOP", "EOR", "LSR", "RMB4",
  "PHA", "EOR", "LSR", "NOP", "JMP", "EOR", "LSR", "BBR4",
  "BVC", "EOR", "EOR", "NOP", "NOP", "EOR", "LSR", "RMB5",
  "CLI", "EOR", "PHY", "NOP", "NOP", "EOR", "LSR", "BBR5",
  "RTS", "ADC", "NOP", "NOP", "STZ", "ADC", "ROR", "RMB6",
  "PLA", "ADC", "ROR", "NOP", "JMP", "ADC", "ROR", "BBR6",
  "BVS", "ADC", "ADC", "NOP", "STZ", "ADC", "ROR", "RMB7",
  "SEI", "ADC", "PLY", "NOP", "JMP", "ADC", "ROR", "BBR7",
  "BRA", "STA", "NOP", "NOP", "STY", "STA", "STX", "SMB0",
  "DEY", "BIT", "TXA", "NOP", "STY", "STA", "STX", "BBS0",
  "BCC", "STA", "STA", "NOP", "STY", "STA", "STX", "SMB1",
  "TYA", "STA", "TXS", "NOP", "STZ", "STA", "STZ", "BBS1",
  "LDY", "LDA", "LDX", "NOP", "LDY", "LDA", "LDX", "SMB2",
  "TAY", "LDA", "TAX", "NOP", "LDY", "LDA", "LDX", "BBS2",
  "BCS", "LDA", "LDA", "NOP", "LDY", "LDA", "LDX", "SMB3",
  "CLV", "LDA", "TSX", "NOP", "LDY", "LDA", "LDX", "BBS3",
  "CPY", "CMP", "NOP", "NOP", "CPY", "CMP", "DEC", "SMB4",
  "INY", "CMP", "DEX", "WAI", "CPY", "CMP", "DEC", "BBS4",
  "BNE", "CMP", "CMP", "NOP", "NOP", "CMP", "DEC", "SMB5",
  "CLD", "CMP", "PHX", "STP", "NOP", "CMP", "DEC", "BBS5",
  "CPX", "SBC", "NOP", "NOP", "CPX", "SBC", "INC", "SMB6",
  "INX", "SBC", "NOP", "NOP", "CPX", "SBC", "INC", "BBS6",
  "BEQ", "SBC", "SBC", "NOP", "NOP", "SBC", "INC", "SMB7",
  "SED", "SBC", "PLX", "NOP", "NOP", "SBC", "INC", "BBS7"
>>

addressings == <<
  "IMP", "INX", "IMP", "IMP", "ZPG", "ZPG", "ZPG", "ZPG",
  "IMP", "IMM", "ACC", "IMP", "ABS", "ABS", "ABS", "REL",
  "REL", "INY", "ZPI", "IMP", "ZPG", "ZPX", "ZPX", "ZPG",
  "IMP", "ABY", "ACC", "IMP", "ABS", "ABX", "ABX", "REL",
  "ABS", "INX", "IMP", "IMP", "ZPG", "ZPG", "ZPG", "ZPG",
  "IMP", "IMM", "ACC", "IMP", "ABS", "ABS", "ABS", "REL",
  "REL", "INY", "ZPI", "IMP", "ZPX", "ZPX", "ZPX", "ZPG",
  "IMP", "ABY", "ACC", "IMP", "ABX", "ABX", "ABX", "REL",
  "IMP", "INX", "IMP", "IMP", "IMP", "ZPG", "ZPG", "ZPG",
  "IMP", "IMM", "ACC", "IMP", "ABS", "ABS", "ABS", "REL",
  "REL", "INY", "ZPI", "IMP", "IMP", "ZPX", "ZPX", "ZPG",
  "IMP", "ABY", "IMP", "IMP", "IMP", "ABX", "ABX", "REL",
  "IMP", "INX", "IMP", "IMP", "ZPG", "ZPG", "ZPG", "ZPG",
  "IMP", "IMM", "ACC", "IMP", "IND", "ABS", "ABS", "REL",
  "REL", "INY", "ZPI", "IMP", "ZPX", "ZPX", "ZPX", "ZPG",
  "IMP", "ABY", "IMP", "IMP", "ABX", "ABX", "ABX", "REL",
  "REL", "INX", "IMP", "IMP", "ZPG", "ZPG", "ZPG", "ZPG",
  "IMP", "IMM", "IMP", "IMP", "ABS", "ABS", "ABS", "REL",
  "REL", "INY", "ZPI", "IMP", "ZPX", "ZPX", "ZPY", "ZPG",
  "IMP", "ABY", "IMP", "IMP", "ABS", "ABX", "ABX", "REL",
  "IMM", "INX", "IMM", "IMP", "ZPG", "ZPG", "ZPG", "ZPG",
  "IMP", "IMM", "IMP", "IMP", "ABS", "ABS", "ABS", "REL",
  "REL", "INY", "ZPI", "IMP", "ZPX", "ZPX", "ZPY", "ZPG",
  "IMP", "ABY", "IMP", "IMP", "ABX", "ABX", "ABX", "REL",
  "IMM", "INX", "IMP", "IMP", "ZPG", "ZPG", "ZPG", "ZPG",
  "IMP", "IMM", "IMP", "IMP", "ABS", "ABS", "ABS", "REL",
  "REL", "INY", "ZPI", "IMP", "IMP", "ZPX", "ZPX", "ZPG",
  "IMP", "ABY", "IMP", "IMP", "IMP", "ABX", "ABX", "REL",
  "IMM", "INX", "IMP", "IMP", "ZPG", "ZPG", "ZPG", "ZPG",
  "IMP", "IMM", "IMP", "IMP", "ABS", "ABS", "ABS", "REL",
  "REL", "INY", "ZPI", "IMP", "IMP", "ZPX", "ZPX", "ZPG",
  "IMP", "ABY", "IMP", "IMP", "IMP", "ABX", "ABX", "REL"
>>

\* "Handle Interrupts - checked after each instruction".
\* The check with IRQ looked at before NMI.
handle_interrupts_irq_first(m) ==
  LET m0 == [m EXCEPT !.polled = [nmi |-> m.nmi, irq |-> m.irq, sr |-> m.sr]] IN
  IF m0.irq /\ ~_check_bit(m0, IRQ_DISABLE)
  THEN _service_interrupt([m0 EXCEPT !.irq = FALSE], IRQ_VECTOR, FALSE)
  ELSE IF m0.nmi
  THEN _service_interrupt([m0 EXCEPT !.nmi = FALSE], NMI_VECTOR, FALSE)
  ELSE m0

\* The check with IRQ serviced whatever irq-disable is.
handle_interrupts_unmasked(m) ==
  LET m0 == [m EXCEPT !.polled = [nmi |-> m.nmi, irq |-> m.irq, sr |-> m.sr]] IN
  IF m0.nmi
  THEN _service_interrupt([m0 EXCEPT !.nmi = FALSE], NMI_VECTOR, FALSE)
  ELSE IF m0.irq
  THEN _service_interrupt([m0 EXCEPT !.irq = FALSE], IRQ_VECTOR, FALSE)
  ELSE m0

\* The check with NMI held back by irq-disable, as IRQ is.
handle_interrupts_nmi_masked(m) ==
  LET m0 == [m EXCEPT !.polled = [nmi |-> m.nmi, irq |-> m.irq, sr |-> m.sr]] IN
  IF m0.nmi /\ ~_check_bit(m0, IRQ_DISABLE)
  THEN _service_interrupt([m0 EXCEPT !.nmi = FALSE], NMI_VECTOR, FALSE)
  ELSE IF m0.irq /\ ~_check_bit(m0, IRQ_DISABLE)
  THEN _service_interrupt([m0 EXCEPT !.irq = FALSE], IRQ_VECTOR, FALSE)
  ELSE m0

\* polled notes the latches and SR the check found.
handle_interrupts(m) ==
  LET m0 == [m EXCEPT !.polled = [nmi |-> m.nmi, irq |-> m.irq, sr |-> m.sr]] IN
  IF m0.nmi
  THEN _service_interrupt([m0 EXCEPT !.nmi = FALSE], NMI_VECTOR, FALSE)
  ELSE IF m0.irq /\ ~_check_bit(m0, IRQ_DISABLE)
  THEN _service_interrupt([m0 EXCEPT !.irq = FALSE], IRQ_VECTOR, FALSE)
  ELSE m0

cpu_step(m) ==
  IF m.reset
  THEN _reset([m EXCEPT !.reset = FALSE])
  ELSE LET b == next_byte(m)
           m1 == cpu_next_byte(m)
           instruction == instructions[b + 1]
           addressing == addressings[b + 1]
           d == load_data(m1, instruction, addressing, b)
       IN handle_interrupts(execute(d.m, instruction, addressing, d.a, d.b))

(***************************************************************************)
(* The VIA (devices.c): registers, the two timers and the interrupt flags. *)
(***************************************************************************)
VIA_REG_PORTB == 0
VIA_REG_PORTA == 1
VIA_REG_DDRB == 2
VIA_REG_DDRA == 3
VIA_REG_T1CL == 4
VIA_REG_T1CH == 5
VIA_REG_T1LL == 6
VIA_REG_T1LH == 7
VIA_REG_T2CL == 8
VIA_REG_T2CH == 9
VIA_REG_SR == 10
VIA_REG_ACR == 11
VIA_REG_PCR == 12
VIA_REG_IFR == 13
VIA_REG_IER == 14
VIA_REG_PORTANH == 15

VIA_INT_T2 == 32
VIA_INT_T1 == 64
VIA_INT_IRQ == 128
VIA_ACR_T1_CONTINUOUS == 64

via_reset ==
  [port_a |-> 0, port_b |-> 0, ddr_a |-> 0, ddr_b |-> 0,
   t1_counter |-> AddrMod - 1, t1_latch |-> AddrMod - 1,
   t2_counter |-> AddrMod - 1, t2_latch_low |-> ByteMod - 1,
   shift_reg |-> 0, acr |-> 0, pcr |-> 0, ifr |-> 0, ier |-> 0,
   t1_running |-> FALSE, t2_running |-> FALSE]

\* x & ~bits, on a byte.
ClearBits(x, bits) == BitAnd(x, ByteMod - 1 - bits)

\* via_read: the byte returned and the device after the read.
via_read(v, reg) ==
  LET r == reg % 16 IN
  CASE r = VIA_REG_PORTB -> [via |-> v, value |-> v.port_b]
    [] r \in {VIA_REG_PORTA, VIA_REG_PORTANH} -> [via |-> v, value |-> v.port_a]
    [] r = VIA_REG_DDRB -> [via |-> v, value |-> v.ddr_b]
    [] r = VIA_REG_DDRA -> [via |-> v, value |-> v.ddr_a]
    [] r = VIA_REG_T1CL -> [via |-> [v EXCEPT !.ifr = ClearBits(@, VIA_INT_T1)],
                            value |-> v.t1_counter % ByteMod]
    [] r = VIA_REG_T1CH -> [via |-> v, value |-> (v.t1_counter \div ByteMod) % ByteMod]
    [] r = VIA_REG_T1LL -> [via |-> v, value |-> v.t1_latch % ByteMod]
    [] r = VIA_REG_T1LH -> [via |-> v, value |-> (v.t1_latch \div ByteMod) % ByteMod]
    [] r = VIA_REG_T2CL -> [via |-> [v EXCEPT !.ifr = ClearBits(@, VIA_INT_T2)],
                            value |-> v.t2_counter % ByteMod]
    [] r = VIA_REG_T2CH -> [via |-> v, value |-> (v.t2_counter \div ByteMod) % ByteMod]
    [] r = VIA_REG_SR -> [via |-> v, value |-> v.shift_reg]
    [] r = VIA_REG_ACR -> [via |-> v, value |-> v.acr]
    [] r = VIA_REG_PCR -> [via |-> v, value |-> v.pcr]
    [] r = VIA_REG_IFR ->
         [via |-> v,
          value |-> IF BitAnd(BitAnd(v.ifr, v.ier), 127) # 0
                    THEN BitOr(v.ifr, VIA_INT_IRQ) ELSE v.ifr]
    [] r = VIA_REG_IER -> [via |-> v, value |-> BitOr(v.ier, 128)]

via_write(v, reg, value) ==
  LET r == reg % 16 IN
  CASE r = VIA_REG_PORTB -> [v EXCEPT !.port_b = value]
    [] r \in {VIA_REG_PORTA, VIA_REG_PORTANH} -> [v EXCEPT !.port_a = value]
    [] r = VIA_REG_DDRB -> [v EXCEPT !.ddr_b = value]
    [] r = VIA_REG_DDRA -> [v EXCEPT !.ddr_a = value]
    [] r \in {VIA_REG_T1CL, VIA_REG_T1LL} ->
         [v EXCEPT !.t1_latch = (@ \div ByteMod) * ByteMod + value]
    [] r = VIA_REG_T1CH ->
         LET latch == (v.t1_latch % ByteMod) + value * ByteMod IN
         [v EXCEPT !.t1_latch = latch, !.t1_counter = latch,
                   !.t1_running = TRUE, !.ifr = ClearBits(@, VIA_INT_T1)]
    [] r = VIA_REG_T1LH ->
         [v EXCEPT !.t1_latch = (@ % ByteMod) + value * ByteMod]
    [] r = VIA_REG_T2CL -> [v EXCEPT !.t2_latch_low = value]
    [] r = VIA_REG_T2CH ->
         [v EXCEPT !.t2_counter = value * ByteMod + v.t2_latch_low,
                   !.t2_running = TRUE, !.ifr = ClearBits(@, VIA_INT_T2)]
    [] r = VIA_REG_SR -> [v EXCEPT !.shift_reg = value]
    [] r = VIA_REG_ACR -> [v EXCEPT !.acr = value]
    [] r = VIA_REG_PCR -> [v EXCEPT !.pcr = value]
    [] r = VIA_REG_IFR -> [v EXCEPT !.ifr = ClearBits(@, BitAnd(value, 127))]
    [] r = VIA_REG_IER ->
         IF BitAnd(value, 128) # 0
         THEN [v EXCEPT !.ier = BitOr(@, BitAnd(value, 127))]
         ELSE [v EXCEPT !.ier = ClearBits(@, BitAnd(value, 127))]

\* Timer 1 of via_tick, left running after a one-shot expiry.
via_tick_t1_one_shot_runs_on(v) ==
  IF v.t1_running
  THEN IF v.t1_counter = 0
       THEN IF BitAnd(v.acr, VIA_ACR_T1_CONTINUOUS) # 0
            THEN [v EXCEPT !.ifr = BitOr(@, VIA_INT_T1), !.t1_counter = v.t1_latch]
            ELSE [v EXCEPT !.ifr = BitOr(@, VIA_INT_T1)]
       ELSE [v EXCEPT !.t1_counter = @ - 1]
  ELSE v

\* Timer 1 of via_tick, reloading the low byte of the latch only.
via_tick_t1_reload_low_byte(v) ==
  IF v.t1_running
  THEN IF v.t1_counter = 0
       THEN IF BitAnd(v.acr, VIA_ACR_T1_CONTINUOUS) # 0
            THEN [v EXCEPT !.ifr = BitOr(@, VIA_INT_T1),
                           !.t1_counter = v.t1_latch % ByteMod]
            ELSE [v EXCEPT !.ifr = BitOr(@, VIA_INT_T1), !.t1_running = FALSE]
       ELSE [v EXCEPT !.t1_counter = @ - 1]
  ELSE v

\* Timer 1 of via_tick.
via_tick_t1(v) ==
  IF v.t1_running
  THEN IF v.t1_counter = 0
       THEN IF BitAnd(v.acr, VIA_ACR_T1_CONTINUOUS) # 0
            THEN [v EXCEPT !.ifr = BitOr(@, VIA_INT_T1), !.t1_counter = v.t1_latch]
            ELSE [v EXCEPT !.ifr = BitOr(@, VIA_INT_T1), !.t1_running = FALSE]
       ELSE [v EXCEPT !.t1_counter = @ - 1]
  ELSE v

\* Timer 2 of via_tick.
via_tick_t2_expires_early(v) ==
  IF v.t2_running
  THEN IF v.t2_counter <= 1
       THEN [v EXCEPT !.ifr = BitOr(@, VIA_INT_T2), !.t2_running = FALSE]
       ELSE [v EXCEPT !.t2_counter = @ - 1]
  ELSE v

via_tick_t2(v) ==
  IF v.t2_running
  THEN IF v.t2_counter = 0
       THEN [v EXCEPT !.ifr = BitOr(@, VIA_INT_T2), !.t2_running = FALSE]
       ELSE [v EXCEPT !.t2_counter = @ - 1]
  ELSE v

via_tick(v) == via_tick_t2(via_tick_t1(v))

via_irq_pending(v) == BitAnd(BitAnd(v.ifr, v.ier), 127) # 0

(***************************************************************************)
(* The ACIA (devices.c) and the host streams it is created with.  The      *)
(* input stream is the bytes waiting in the kernel and whether the other   *)
(* end has closed; select() reports it readable in both cases, and read()  *)
(* would block on it in neither.                                           *)
(***************************************************************************)
ACIA_REG_DATA == 0
ACIA_REG_STATUS == 1
ACIA_REG_COMMAND == 2
ACIA_REG_CONTROL == 3

ACIA_STATUS_RDRF == 8
ACIA_STATUS_TDRE == 16

acia_reset(a) == [a EXCEPT !.command = 0, !.control = 0, !.rx_data = 0, !.rx_full = FALSE]

acia_create == acia_reset([command |-> 0, control |-> 0, rx_data |-> 0, rx_full |-> FALSE])

\* select() with a zero timeout: data waiting, or end of file.
input_available(in) == in.pending # <<>> \/ in.closed

\* acia_read: the byte returned, the device and the input stream after the
\* read, the byte taken from the stream (-1 if none) and whether a call made
\* on the stream could block.
acia_read_status_consumes(a, in, reg) ==
  LET r == reg % 4
      takes == ~a.rx_full /\ in.attached /\ (r = ACIA_REG_STATUS \/ input_available(in))
      got == IF takes /\ in.pending # <<>> THEN Head(in.pending) ELSE -1
      latched == IF got = 10 THEN 13 ELSE got
      after == IF got >= 0 THEN [a EXCEPT !.rx_data = latched, !.rx_full = (r = ACIA_REG_STATUS)]
               ELSE a
      stream == IF got >= 0 THEN [in EXCEPT !.pending = Tail(@)] ELSE in
  IN CASE r = ACIA_REG_DATA ->
            [acia |-> [after EXCEPT !.rx_full = FALSE], input |-> stream,
             value |-> after.rx_data, got |-> got, blocks |-> FALSE]
       [] r = ACIA_REG_STATUS ->
            [acia |-> after, input |-> stream,
             value |-> IF after.rx_full THEN ACIA_STATUS_TDRE + ACIA_STATUS_RDRF
                       ELSE ACIA_STATUS_TDRE,
             got |-> got, blocks |-> takes /\ ~input_available(in)]
       [] r = ACIA_REG_COMMAND ->
            [acia |-> a, input |-> in, value |-> a.command, got |-> -1, blocks |-> FALSE]
       [] r = ACIA_REG_CONTROL ->
            [acia |-> a, input |-> in, value |-> a.control, got |-> -1, blocks |-> FALSE]

acia_read_masks_7_bits(a, in, reg) ==
  LET r == reg % 4
      takes == ~a.rx_full /\ in.attached /\ input_available(in)
      got == IF takes /\ in.pending # <<>> THEN Head(in.pending) ELSE -1
      latched == (IF got = 10 THEN 13 ELSE got) % 128
      after == IF got >= 0 THEN [a EXCEPT !.rx_data = latched] ELSE a
      stream == IF got >= 0 THEN [in EXCEPT !.pending = Tail(@)] ELSE in
  IN CASE r = ACIA_REG_DATA ->
            [acia |-> [after EXCEPT !.rx_full = FALSE], input |-> stream,
             value |-> after.rx_data, got |-> got, blocks |-> FALSE]
       [] r = ACIA_REG_STATUS ->
            [acia |-> a, input |-> in,
             value |-> IF a.rx_full \/ (in.attached /\ input_available(in))
                       THEN ACIA_STATUS_TDRE + ACIA_STATUS_RDRF
                       ELSE ACIA_STATUS_TDRE,
             got |-> -1, blocks |-> FALSE]
       [] r = ACIA_REG_COMMAND ->
            [acia |-> a, input |-> in, value |-> a.command, got |-> -1, blocks |-> FALSE]
       [] r = ACIA_REG_CONTROL ->
            [acia |-> a, input |-> in, value |-> a.control, got |-> -1, blocks |-> FALSE]

acia_read(a, in, reg) ==
  LET r == reg % 4
      takes == ~a.rx_full /\ in.attached /\ input_available(in)
      got == IF takes /\ in.pending # <<>> THEN Head(in.pending) ELSE -1
      latched == IF got = 10 THEN 13 ELSE got
      after == IF got >= 0 THEN [a EXCEPT !.rx_data = latched] ELSE a
      stream == IF got >= 0 THEN [in EXCEPT !.pending = Tail(@)] ELSE in
  IN CASE r = ACIA_REG_DATA ->
            [acia |-> [after EXCEPT !.rx_full = FALSE], input |-> stream,
             value |-> after.rx_data, got |-> got,
             blocks |-> takes /\ ~input_available(in)]
       [] r = ACIA_REG_STATUS ->
            [acia |-> a, input |-> in,
             value |-> IF a.rx_full \/ (in.attached /\ input_available(in))
                       THEN ACIA_STATUS_TDRE + ACIA_STATUS_RDRF
                       ELSE ACIA_STATUS_TDRE,
             got |-> -1, blocks |-> FALSE]
       [] r = ACIA_REG_COMMAND ->
            [acia |-> a, input |-> in, value |-> a.command, got |-> -1, blocks |-> FALSE]
       [] r = ACIA_REG_CONTROL ->
            [acia |-> a, input |-> in, value |-> a.control, got |-> -1, blocks |-> FALSE]

\* acia_write: the device after the write and the bytes sent to the output.
acia_write(a, out, reg, value) ==
  LET r == reg % 4 IN
  CASE r = ACIA_REG_DATA ->
         [acia |-> a, output |-> IF out.attached THEN [out EXCEPT !.sent = Append(@, value)] ELSE out]
    [] r = ACIA_REG_STATUS -> [acia |-> acia_reset(a), output |-> out]
    [] r = ACIA_REG_COMMAND -> [acia |-> [a EXCEPT !.command = value], output |-> out]
    [] r = ACIA_REG_CONTROL -> [acia |-> [a EXCEPT !.control = value], output |-> out]

(***************************************************************************)
(* The file I/O port (devices.c) and the host's stdio.  host.files gives   *)
(* each FILE handle the host can hand out its state: "closed", or the mode *)
(* it was opened with.  fclose of a handle that is not open is undefined   *)
(* behaviour; host.double_close records that it happened.                  *)
(***************************************************************************)
FILEIO_REG_STATUS == 0
FILEIO_REG_DATA == 1
FILEIO_REG_NAMEINDEX == 2
FILEIO_REG_NAMECHAR == 3

FILEIO_CMD_RESET == 0
FILEIO_CMD_OPEN_R == 1
FILEIO_CMD_OPEN_W == 2
FILEIO_CMD_READ == 3
FILEIO_CMD_WRITE == 4
FILEIO_CMD_CLOSE == 5

FILEIO_STATUS_OPEN == 1
FILEIO_STATUS_EOF == 2
FILEIO_STATUS_ERR == 4
FILEIO_STATUS_READY == 128

FILEIO_NAME_MAXLEN == 256

\* The handles fopen can return; 0 is NULL.
Handles == {1, 2}

fclose(host, h) ==
  IF host.files[h] = "closed" THEN [host EXCEPT !.double_close = TRUE]
  ELSE [host EXCEPT !.files[h] = "closed"]

\* fopen(name, mode), given the handle the host would hand out (NULL: no such
\* file, no permission): NULL for the empty name or a handle in use.
fopen(host, name, handle) ==
  IF handle # 0 /\ name[0] # 0 /\ host.files[handle] = "closed" THEN handle ELSE 0

\* fgetc, given the byte the host would deliver (-1: end of file): EOF for a
\* stream that is not open for reading.
fgetc(host, h, byte) == IF host.files[h] = "rb" THEN byte ELSE -1

\* fileio_reset: the port and the host after the reset.
fileio_reset(f, host) ==
  [fio |-> [file |-> 0, status |-> FILEIO_STATUS_READY, data |-> 0, name_index |-> 0,
            filename |-> [i \in 0..(FILEIO_NAME_MAXLEN - 1) |-> 0]],
   host |-> IF f.file # 0 THEN fclose(host, f.file) ELSE host]

\* fileio_create: file = NULL, then fileio_reset.
fileio_create ==
  fileio_reset([file |-> 0], [files |-> [h \in Handles |-> "closed"],
                              double_close |-> FALSE]).fio

fileio_read(f, reg) ==
  CASE reg = FILEIO_REG_STATUS -> f.status
    [] reg = FILEIO_REG_DATA -> f.data
    [] reg = FILEIO_REG_NAMEINDEX -> f.name_index
    [] reg = FILEIO_REG_NAMECHAR -> f.filename[f.name_index]
    [] OTHER -> 255

\* The OPEN_R and OPEN_W commands.
fileio_open_leaks(f, host, mode, handle) ==
  LET named == [f EXCEPT !.filename[f.name_index] = 0]
      opened == fopen(host, named.filename, handle)
  IN
  [fio |-> [named EXCEPT !.file = opened,
                         !.status = IF opened # 0
                                    THEN FILEIO_STATUS_READY + FILEIO_STATUS_OPEN
                                    ELSE FILEIO_STATUS_READY + FILEIO_STATUS_ERR],
   host |-> IF opened # 0 THEN [host EXCEPT !.files[opened] = mode] ELSE host]

fileio_open_reports_open(f, host, mode, handle) ==
  LET closed == IF f.file # 0 THEN fclose(host, f.file) ELSE host
      named == [f EXCEPT !.filename[f.name_index] = 0]
      opened == fopen(closed, named.filename, handle)
  IN [fio |-> [named EXCEPT !.file = opened,
                            !.status = FILEIO_STATUS_READY + FILEIO_STATUS_OPEN],
      host |-> IF opened # 0 THEN [closed EXCEPT !.files[opened] = mode] ELSE closed]

fileio_open(f, host, mode, handle) ==
  LET closed == IF f.file # 0 THEN fclose(host, f.file) ELSE host
      named == [f EXCEPT !.filename[f.name_index] = 0]
      opened == fopen(closed, named.filename, handle)
  IN [fio |-> [named EXCEPT !.file = opened,
                            !.status = IF opened # 0
                                       THEN FILEIO_STATUS_READY + FILEIO_STATUS_OPEN
                                       ELSE FILEIO_STATUS_READY + FILEIO_STATUS_ERR],
      host |-> IF opened # 0 THEN [closed EXCEPT !.files[opened] = mode] ELSE closed]

\* fileio_write: the port and the host after the write.  handle and byte are
\* what the host would give to fopen and fgetc, where the command calls them.
fileio_write_eof_without_file(f, host, reg, value, handle, byte) ==
  CASE reg = FILEIO_REG_STATUS ->
         CASE value = FILEIO_CMD_RESET -> fileio_reset(f, host)
           [] value = FILEIO_CMD_OPEN_R -> fileio_open(f, host, "rb", handle)
           [] value = FILEIO_CMD_OPEN_W -> fileio_open(f, host, "wb", handle)
           [] value = FILEIO_CMD_READ ->
                [fio |-> IF f.file = 0 \/ fgetc(host, f.file, byte) = -1
                         THEN [f EXCEPT !.status = BitOr(@, FILEIO_STATUS_EOF), !.data = 0]
                         ELSE [f EXCEPT !.data = fgetc(host, f.file, byte)],
                 host |-> host]
           [] value = FILEIO_CMD_WRITE ->
                [fio |-> IF f.file = 0
                         THEN [f EXCEPT !.status = BitOr(@, FILEIO_STATUS_ERR)]
                         ELSE f,
                 host |-> host]
           [] value = FILEIO_CMD_CLOSE ->
                [fio |-> [f EXCEPT !.file = 0, !.status = FILEIO_STATUS_READY],
                 host |-> IF f.file # 0 THEN fclose(host, f.file) ELSE host]
           [] OTHER -> [fio |-> f, host |-> host]
    [] reg = FILEIO_REG_DATA -> [fio |-> [f EXCEPT !.data = value], host |-> host]
    [] reg = FILEIO_REG_NAMEINDEX -> [fio |-> [f EXCEPT !.name_index = value], host |-> host]
    [] reg = FILEIO_REG_NAMECHAR ->
         [fio |-> [f EXCEPT !.filename[f.name_index] = value,
                            !.name_index = (@ + 1) % ByteMod],
          host |-> host]
    [] OTHER -> [fio |-> f, host |-> host]

fileio_write(f, host, reg, value, handle, byte) ==
  CASE reg = FILEIO_REG_STATUS ->
         CASE value = FILEIO_CMD_RESET -> fileio_reset(f, host)
           [] value = FILEIO_CMD_OPEN_R -> fileio_open(f, host, "rb", handle)
           [] value = FILEIO_CMD_OPEN_W -> fileio_open(f, host, "wb", handle)
           [] value = FILEIO_CMD_READ ->
                [fio |-> IF f.file = 0
                         THEN [f EXCEPT !.status = BitOr(@, FILEIO_STATUS_ERR)]
                         ELSE IF fgetc(host, f.file, byte) = -1
                         THEN [f EXCEPT !.status = BitOr(@, FILEIO_STATUS_EOF), !.data = 0]
                         ELSE [f EXCEPT !.data = fgetc(host, f.file, byte)],
                 host |-> host]
           [] value = FILEIO_CMD_WRITE ->
                [fio |-> IF f.file = 0
                         THEN [f EXCEPT !.status = BitOr(@, FILEIO_STATUS_ERR)]
                         ELSE f,
                 host |-> host]
           [] value = FILEIO_CMD_CLOSE ->
                [fio |-> [f EXCEPT !.file = 0, !.status = FILEIO_STATUS_READY],
                 host |-> IF f.file # 0 THEN fclose(host, f.file) ELSE host]
           [] OTHER -> [fio |-> f, host |-> host]
    [] reg = FILEIO_REG_DATA -> [fio |-> [f EXCEPT !.data = value], host |-> host]
    [] reg = FILEIO_REG_NAMEINDEX -> [fio |-> [f EXCEPT !.name_index = value], host |-> host]
    [] reg = FILEIO_REG_NAMECHAR ->
         [fio |-> [f EXCEPT !.filename[f.name_index] = value,
                            !.name_index = (@ + 1) % ByteMod],
          host |-> host]
    [] OTHER -> [fio |-> f, host |-> host]

(***************************************************************************)
(* The machine's bus (vmachine.c): device windows first, then the          *)
(* protected ranges, then RAM.                                             *)
(***************************************************************************)
VMACHINE_ROM_START == 53248

\* The device whose window holds address a, "" for none.
Window(a) ==
  CASE a >= 49168 /\ a <= 49171 -> "acia"
    [] a >= 49184 /\ a <= 49187 -> "acia2"
    [] a >= 49200 /\ a <= 49215 -> "via"
    [] a >= 49216 /\ a <= 49231 -> "fio"
    [] OTHER -> ""

\* machine_read: the byte returned and the devices after the read.
machine_read(memory, d, a) ==
  CASE Window(a) = "acia" ->
         LET r == acia_read(d.acia, d.input, a % 4) IN
         [value |-> r.value, dev |-> [d EXCEPT !.acia = r.acia, !.input = r.input]]
    [] Window(a) = "acia2" ->
         \* The second ACIA is created with no streams.
         LET r == acia_read(d.acia2, [d.input EXCEPT !.attached = FALSE], a % 4) IN
         [value |-> r.value, dev |-> [d EXCEPT !.acia2 = r.acia]]
    [] Window(a) = "via" ->
         LET r == via_read(d.via, a % 16) IN
         [value |-> r.value, dev |-> [d EXCEPT !.via = r.via]]
    [] Window(a) = "fio" -> [value |-> fileio_read(d.fio, a % 16), dev |-> d]
    [] OTHER -> [value |-> test_read(memory, a), dev |-> d]

\* machine_write: memory and the devices after the write.
machine_write_unprotected(memory, list, d, a, b, handle, byte) ==
  CASE Window(a) = "acia" ->
         LET w == acia_write(d.acia, d.output, a % 4, b) IN
         [mem |-> memory, dev |-> [d EXCEPT !.acia = w.acia, !.output = w.output]]
    [] Window(a) = "acia2" ->
         [mem |-> memory,
          dev |-> [d EXCEPT !.acia2 = acia_write(d.acia2, [d.output EXCEPT !.attached = FALSE], a % 4, b).acia]]
    [] Window(a) = "via" ->
         [mem |-> memory, dev |-> [d EXCEPT !.via = via_write(d.via, a % 16, b)]]
    [] Window(a) = "fio" ->
         LET w == fileio_write(d.fio, d.host, a % 16, b, handle, byte) IN
         [mem |-> memory, dev |-> [d EXCEPT !.fio = w.fio, !.host = w.host]]
    [] OTHER -> [mem |-> test_write(memory, a, b), dev |-> d]

machine_write(memory, list, d, a, b, handle, byte) ==
  CASE Window(a) = "acia" ->
         LET w == acia_write(d.acia, d.output, a % 4, b) IN
         [mem |-> memory, dev |-> [d EXCEPT !.acia = w.acia, !.output = w.output]]
    [] Window(a) = "acia2" ->
         [mem |-> memory,
          dev |-> [d EXCEPT !.acia2 = acia_write(d.acia2, [d.output EXCEPT !.attached = FALSE], a % 4, b).acia]]
    [] Window(a) = "via" ->
         [mem |-> memory, dev |-> [d EXCEPT !.via = via_write(d.via, a % 16, b)]]
    [] Window(a) = "fio" ->
         LET w == fileio_write(d.fio, d.host, a % 16, b, handle, byte) IN
         [mem |-> memory, dev |-> [d EXCEPT !.fio = w.fio, !.host = w.host]]
    [] OTHER ->
         IF is_address_in_range_list(list, a)
         THEN [mem |-> memory, dev |-> d]
         ELSE [mem |-> test_write(memory, a, b), dev |-> d]

\* machine_tick: the cpu and the devices after the tick.  The VIA's timers
\* advance; no line runs from the VIA to the cpu.
machine_tick(cpu, d) == [c |-> cpu, dev |-> [d EXCEPT !.via = via_tick(d.via)]]

(***************************************************************************)
(* The state machine.  The list and the CPU are driven separately: SpecList *)
(* is the address-range list under add/remove, Spec the CPU under the test  *)
(* harness (set-up of memory and registers, then steps and interrupt        *)
(* requests).                                                               *)
(***************************************************************************)
\* cpu_step calls per run; interrupt and reset requests are taken while a
\* step can still follow them.
MaxSteps == 2

\* cpu_init: no read callback is installed yet, so the reset vector reads 0.
\* The tick slot is TRUE when a callback is installed (not NULL).
cpu_init ==
  [pc |-> 0, a |-> 0, x |-> 0, y |-> 0, sr |-> 54, sp |-> 253,
   halted |-> FALSE, reset |-> FALSE, irq |-> FALSE, nmi |-> FALSE,
   variant |-> "CPU_65C02", tick |-> FALSE]

\* test_init: memory zeroed, the reset vector pointing at 0x0200.
test_init == test_write(test_write(<<>>, RESET_VECTOR, 0), RESET_VECTOR + 1, 2)

RECURSIVE Poke(_, _, _)
Poke(memory, a, bytes) ==
  IF bytes = <<>>
  THEN memory
  ELSE Poke(test_write(memory, Addr(a), Head(bytes)), a + 1, Tail(bytes))

Word(w) == <<w % ByteMod, w \div ByteMod>>

IrqHandler == 12288
NmiHandler == 16384
Subroutine == 4096
ProgramStart == 512

\* Stack pointers: the reset value, and the values at which one, two or three
\* pushes wrap from 0x00 to 0xFF, and a pop wraps from 0xFF to 0x00.
StackPointers == {0, 1, 2, 253, 255}

\* Status registers: all clear; the reset value 0x36 (irq-disable, break and
\* bit 5 set); 0xDB (break set, bit 5 and irq-disable clear).
StatusValues == {0, 54, 219}

\* The first byte at each interrupt handler and at Subroutine: RTI, NOP.
Landings == {64, 234}

\* Programs placed at ProgramStart.
Programs ==
  { <<234, 234, 234>>,          \* NOP NOP NOP
    <<234, 88, 234>>,           \* NOP CLI NOP
    <<0, 234>>,                 \* BRK and its padding byte
    <<72, 104>>,                \* PHA PLA
    <<8, 40>>,                  \* PHP and opcode 0x28
    <<88, 234>>,                \* CLI NOP
    <<120, 234>>,               \* SEI NOP
    <<141, 250, 255>> }         \* STA $FFFA

\* JSR placed so that the return address crosses a page, wraps the address
\* space, or lies in the stack page; targets outside and inside the stack page.
JsrAddrs == {ProgramStart, 766, 65533, 510}
JsrTargets == {Subroutine, 508, 256}

Vectors(h) ==
  Poke(Poke(Poke(Poke(Poke(test_init,
    IRQ_VECTOR, Word(IrqHandler)), NMI_VECTOR, Word(NmiHandler)),
    IrqHandler, <<h>>), NmiHandler, <<h>>), Subroutine, <<h>>)

Scenario(p, image, sp, sr) ==
  [pc |-> p, sp |-> sp, sr |-> sr, a |-> 66, image |-> image]

Scenarios ==
  { Scenario(ProgramStart, Poke(Vectors(h), ProgramStart, prog), sp, sr) :
      prog \in Programs, h \in Landings, sp \in StackPointers, sr \in StatusValues }
  \cup
  { Scenario(p, Poke(Poke(Vectors(96), t, <<96>>), p, <<32>> \o Word(t)), sp, 54) :
      p \in JsrAddrs, t \in JsrTargets, sp \in StackPointers }

Snapshot == [c |-> c, mem |-> mem]

\* Nothing noted: no timer started, no expiry seen.
Untracked == [n |-> -1, age |-> 0]
no_notes ==
  [op |-> "none", t1 |-> Untracked, t2 |-> Untracked, since |-> -1, reloads |-> 0,
   spent |-> FALSE, reg |-> 0, value |-> 0, got |-> -1, blocks |-> FALSE,
   addr |-> 0]

Init ==
  /\ ranges = init_address_range_list
  /\ lastop = [op |-> "init", covered |-> {}]
  /\ c = cpu_init
  /\ mem = test_init
  /\ hist = <<>>
  /\ dev = [via |-> via_reset, acia |-> acia_create, input |-> [attached |-> FALSE, pending |-> <<>>, closed |-> FALSE],
            output |-> [attached |-> FALSE, sent |-> <<>>],
            acia2 |-> acia_create, fio |-> fileio_create,
            host |-> [files |-> [h \in Handles |-> "closed"], double_close |-> FALSE]]
  /\ notes = no_notes

\* The test harness writes the program and sets the registers.
Load ==
  /\ hist = <<>>
  /\ \E s \in Scenarios :
       /\ c' = [c EXCEPT !.pc = s.pc, !.sp = s.sp, !.sr = s.sr, !.a = s.a]
       /\ mem' = s.image
  /\ hist' = <<[kind |-> "load"]>>
  /\ UNCHANGED <<ranges, lastop, dev, notes>>

Cpu(m) == [f \in DOMAIN cpu_init |-> m[f]]

Step ==
  /\ hist # <<>>
  /\ Len(hist) <= MaxSteps
  /\ LET m == cpu_step(c @@ [mem |-> mem, bus |-> <<>>, frames |-> <<>>,
                                polled |-> <<>>]) IN
       /\ c' = Cpu(m)
       /\ mem' = m.mem
       /\ hist' = Append(hist, [kind |-> IF c.reset THEN "reset" ELSE "step",
                                before |-> Snapshot,
                                after |-> [c |-> Cpu(m), mem |-> m.mem],
                                bus |-> m.bus, frames |-> m.frames,
                                polled |-> m.polled])
  /\ UNCHANGED <<ranges, lastop, dev, notes>>

cpu_irq ==
  /\ hist # <<>>
  /\ Len(hist) <= MaxSteps
  /\ c' = [c EXCEPT !.irq = TRUE]
  /\ UNCHANGED <<ranges, lastop, mem, hist, dev, notes>>

cpu_nmi ==
  /\ hist # <<>>
  /\ Len(hist) <= MaxSteps
  /\ c' = [c EXCEPT !.nmi = TRUE]
  /\ UNCHANGED <<ranges, lastop, mem, hist, dev, notes>>

cpu_reset ==
  /\ hist # <<>>
  /\ Len(hist) <= MaxSteps
  /\ c' = [c EXCEPT !.reset = TRUE]
  /\ UNCHANGED <<ranges, lastop, mem, hist, dev, notes>>

Next == Load \/ Step \/ cpu_irq \/ cpu_nmi \/ cpu_reset

Spec == Init /\ [][Next]_vars

\* The addresses at which membership is observed: every bound an operation
\* can name and an address between the bounds.  lastop.covered is the set of
\* these addresses that the operations so far, read as set union and set
\* difference from the empty set, leave covered.
Probes == ListAddrs \cup {MaxListAddr + 1, AddrMod - 2}

AddRange ==
  /\ \E s \in ListAddrs, e \in ListAddrs :
       /\ s <= e
       /\ ranges' = add_address_range(ranges, address_range(s, e))
       /\ lastop' = [op |-> "add", start |-> s, end |-> e, before |-> ranges,
                     covered |-> lastop.covered \cup {x \in Probes : s <= x /\ x <= e}]
  /\ Len(ranges') <= MaxNodes
  /\ UNCHANGED <<c, mem, hist, dev, notes>>

RemoveRange ==
  /\ \E s \in ListAddrs, e \in ListAddrs :
       /\ s <= e
       /\ ranges' = remove_address_range(ranges, address_range(s, e))
       /\ lastop' = [op |-> "remove", start |-> s, end |-> e, before |-> ranges,
                     covered |-> lastop.covered \ {x \in Probes : s <= x /\ x <= e}]
  /\ Len(ranges') <= MaxNodes
  /\ UNCHANGED <<c, mem, hist, dev, notes>>

NextList == AddRange \/ RemoveRange

SpecList == Init /\ [][NextList]_vars

(***************************************************************************)
(* SpecDecode: one opcode, any of the 256, executed from a freshly reset   *)
(* CPU, as test_reset_cpu sets it up: memory written, cpu_reset, one step  *)
(* for the reset, one for the opcode.                                      *)
(***************************************************************************)
\* The two bytes that follow the opcode.
OperandPairs == {<<16, 48>>, <<240, 0>>}

\* Memory around the opcode: the vectors, a word at each address the operand
\* pairs name, and three bytes where a pop from the reset SP reads.
DecodeImage(b, ops) ==
  Poke(Poke(Poke(Poke(Poke(Vectors(234),
    12304, <<33, 67>>), 240, <<33, 67>>),
    510, <<33, 67>>), 256, <<101>>),
    ProgramStart, <<b>> \o ops)

LoadOpcode ==
  /\ hist = <<>>
  /\ \E b \in 0..(ByteMod - 1), ops \in OperandPairs : mem' = DecodeImage(b, ops)
  /\ c' = [c EXCEPT !.reset = TRUE]
  /\ hist' = <<[kind |-> "load"]>>
  /\ UNCHANGED <<ranges, lastop, dev, notes>>

NextDecode == LoadOpcode \/ Step

SpecDecode == Init /\ [][NextDecode]_vars

(***************************************************************************)
(* SpecAlu: ADC #M or SBC #M at 0x0200, with A, the carry, decimal and     *)
(* overflow flags and the CPU variant set by the harness before the step.  *)
(***************************************************************************)
\* Operand values: nibble and byte boundaries, both signs, valid BCD (0x00,
\* 0x01, 0x09, 0x10, 0x19, 0x40, 0x50, 0x59, 0x80, 0x81, 0x99) and invalid BCD.
AluValues == {0, 1, 9, 10, 15, 16, 25, 64, 80, 89, 127, 128, 129, 153, 154, 240, 255}

\* SR with bit 5 set and the given carry, decimal and overflow bits.
AluStatus(carry, decimal, overflow) ==
  32 + carry * Pow2(CARRY_FLAG) + decimal * Pow2(BCD_FLAG) + overflow * Pow2(OVERFLOW_FLAG)

cpu_set_variant(m, variant) == [m EXCEPT !.variant = variant]

LoadAlu ==
  /\ hist = <<>>
  /\ \E op \in {105, 233}, A \in AluValues, M \in AluValues,
        carry \in 0..1, decimal \in 0..1, overflow \in 0..1,
        variant \in {"CPU_6502", "CPU_65C02"} :
       /\ c' = [cpu_set_variant(c, variant) EXCEPT
                  !.pc = ProgramStart, !.a = A,
                  !.sr = AluStatus(carry, decimal, overflow)]
       /\ mem' = Poke(Vectors(234), ProgramStart, <<op, M>>)
  /\ hist' = <<[kind |-> "load"]>>
  /\ UNCHANGED <<ranges, lastop, dev, notes>>

NextAlu == LoadAlu \/ Step

SpecAlu == Init /\ [][NextAlu]_vars

(***************************************************************************)
(* SpecAddr: one instruction of a zero-page indexed or zero-page pointer   *)
(* addressing mode, or a store, at 0x0200, with the operand bytes and the  *)
(* index registers set by the harness.                                     *)
(***************************************************************************)
\* Opcodes 0x64, 0x74, 0x9C, 0x9E (STZ), those the tables decode as a store
\* or with a zero-page indexed or zero-page pointer mode, and 0x7C (JMP with
\* an indexed operand).
AddrOpcodes ==
  {b \in 0..(ByteMod - 1) :
     \/ addressings[b + 1] \in {"ZPX", "ZPY", "INX", "INY", "ZPI"}
     \/ instructions[b + 1] \in {"STA", "STX", "STY", "STZ"}
     \/ b = 124}

\* First operand bytes (the ends and the middle of page zero), second operand
\* bytes, index values.
ZeroPageOperands == {0, 128, 254, 255}
HighOperands == {48, 255}
IndexValues == {0, 1, 255}

\* Memory with distinct bytes at the ends of page zero and at 0x0100.
AddrImage(b, o1, o2) ==
  Poke(Poke(Poke(Poke(Vectors(234),
    0, <<18, 120>>), 128, <<33, 67>>), 254, <<154, 52, 86>>),
    ProgramStart, <<b, o1, o2>>)

LoadAddr ==
  /\ hist = <<>>
  /\ \E b \in AddrOpcodes, o1 \in ZeroPageOperands, o2 \in HighOperands,
        x \in IndexValues, y \in IndexValues :
       /\ c' = [c EXCEPT !.pc = ProgramStart, !.a = 66, !.x = x, !.y = y]
       /\ mem' = AddrImage(b, o1, o2)
  /\ hist' = <<[kind |-> "load"]>>
  /\ UNCHANGED <<ranges, lastop, dev, notes>>

NextAddr == LoadAddr \/ Step

SpecAddr == Init /\ [][NextAddr]_vars

(***************************************************************************)
(* cpu_run.  The host installs (or not) a tick callback, may single-step   *)
(* the CPU with cpu_step, and calls cpu_run.  The history records the call *)
(* of cpu_run, each cpu_step the loop makes, each call of the tick         *)
(* callback and the return of cpu_run.  The host's signal handler calls    *)
(* cpu_halt while cpu_run is active.                                       *)
(***************************************************************************)
\* Length of the history up to which cpu_run starts another iteration.
MaxRunLen == 5

RunScenarios == {s \in Scenarios : s.sp = 253 /\ s.sr = 54}

LoadRun ==
  /\ hist = <<>>
  /\ \E s \in RunScenarios, installed \in BOOLEAN, pending \in BOOLEAN :
       /\ c' = [c EXCEPT !.pc = s.pc, !.sp = s.sp, !.sr = s.sr, !.a = s.a,
                         !.tick = installed, !.reset = pending]
       /\ mem' = s.image
  /\ hist' = <<[kind |-> "load"]>>
  /\ UNCHANGED <<ranges, lastop, dev, notes>>

\* cpu_run has been called and has not returned.
Running ==
  \E r \in 1..Len(hist) :
    /\ hist[r].kind = "run"
    /\ \A j \in (r + 1)..Len(hist) : hist[j].kind # "return"

\* The host calls cpu_step itself (the monitor's STEP command).
HostStep == ~Running /\ Step

CallRun ==
  /\ hist # <<>>
  /\ ~Running
  /\ Len(hist) <= MaxSteps + 1
  /\ hist' = Append(hist, [kind |-> "run"])
  /\ UNCHANGED <<ranges, lastop, c, mem, dev, notes>>

cpu_halt(m) == [m EXCEPT !.halted = TRUE]

\* The calls of the tick callback in one iteration of cpu_run
\* entered with the CPU m that cpu_step left.
tick_calls_twice(m) ==
  IF m.tick THEN <<[kind |-> "tick"], [kind |-> "tick"]>> ELSE <<>>

tick_calls(m) ==
  IF m.tick THEN <<[kind |-> "tick"]>> ELSE <<>>

\* When the host's SIGINT handler, which calls cpu_halt, runs in an iteration:
\* before the step's first bus access, or after the step has finished (before
\* the loop tests the latch again).
Arrivals == {"none", "before the step", "after the step"}

\* One iteration of the loop of cpu_run: cpu_step, then the tick callback.
RunIteration ==
  /\ Running
  /\ ~c.halted
  /\ Len(hist) <= MaxRunLen
  /\ \E sigint \in Arrivals :
       LET m0 == c @@ [mem |-> mem, bus |-> <<>>, frames |-> <<>>, polled |-> <<>>]
           m == cpu_step(IF sigint = "before the step" THEN cpu_halt(m0) ELSE m0)
           after == IF sigint = "after the step" THEN cpu_halt(Cpu(m)) ELSE Cpu(m)
       IN /\ c' = after
          /\ mem' = m.mem
          /\ hist' = Append(hist, [kind |-> IF c.reset THEN "reset" ELSE "step",
                                   before |-> Snapshot,
                                   after |-> [c |-> Cpu(m), mem |-> m.mem],
                                   bus |-> m.bus, frames |-> m.frames,
                                   polled |-> m.polled, halt |-> sigint])
                    \o tick_calls(m)
  /\ UNCHANGED <<ranges, lastop, dev, notes>>

\* The loop test finds halted set: cpu_run returns.
ReturnRun ==
  /\ Running
  /\ c.halted
  /\ hist' = Append(hist, [kind |-> "return"])
  /\ UNCHANGED <<ranges, lastop, c, mem, dev, notes>>

NextRun == LoadRun \/ HostStep \/ CallRun \/ RunIteration \/ ReturnRun

SpecRun == Init /\ [][NextRun]_vars

(***************************************************************************)
(* Reset from any CPU state.  The host sets the registers and latches,     *)
(* points the reset vector somewhere, requests a reset and steps.          *)
(***************************************************************************)
\* Registers all 0x00 or all 0xFF; SP 0x00 or the reset value; SR clear, the
\* reset value or all ones; the reset vector pointing at the harness's 0x0200
\* or at words whose bytes differ from it and from each other.
LoadReset ==
  /\ hist = <<>>
  /\ \E r \in {0, 255}, sp \in {0, 253}, sr \in {0, 54, 255}, h \in BOOLEAN,
        t \in {ProgramStart, 4660, 65279} :
       /\ c' = [c EXCEPT !.pc = Subroutine, !.a = r, !.x = r, !.y = r,
                         !.sp = sp, !.sr = sr, !.halted = h]
       /\ mem' = Poke(Poke(Vectors(234), t, <<234>>), RESET_VECTOR, Word(t))
  /\ hist' = <<[kind |-> "load"]>>
  /\ UNCHANGED <<ranges, lastop, dev, notes>>

NextReset == LoadReset \/ Step \/ cpu_irq \/ cpu_nmi \/ cpu_reset

SpecReset == Init /\ [][NextReset]_vars

(***************************************************************************)
(* The VIA under its test harness: a timer is started as the tests start   *)
(* it (counter low, then counter high), registers are written and read,    *)
(* and the device is ticked.  One timer is exercised per device instance.  *)
(* notes keeps, for each timer, the count it was started with and the      *)
(* ticks since, while no register has been accessed; the ticks since the   *)
(* last continuous-mode expiry of timer 1 and whether that expiry was the  *)
(* first or a later one, while timer 1 and the ACR have not been written;  *)
(* and whether timer 1 has expired in one-shot mode since it was last      *)
(* started.                                                                *)
(***************************************************************************)
\* Counter bytes the timers are started with: counts 0, 1, 2, 256, 257, 258.
ViaLows == {0, 1, 2}
ViaHighs == {0, 1}

\* Register writes apart from starting a timer: the T1 latch, the mode, the
\* flag clears and the T1 interrupt enable.
ViaWrites ==
  {<<VIA_REG_T1LL, 0>>, <<VIA_REG_T1LL, 1>>, <<VIA_REG_T1LH, 0>>, <<VIA_REG_T1LH, 1>>,
   <<VIA_REG_ACR, 0>>, <<VIA_REG_ACR, VIA_ACR_T1_CONTINUOUS>>,
   <<VIA_REG_IFR, VIA_INT_T1>>, <<VIA_REG_IFR, VIA_INT_T2>>,
   <<VIA_REG_IER, 192>>, <<VIA_REG_IER, 64>>}

StartTimer1 ==
  \* One timer is exercised at a time: timer 2 is as via_reset left it.
  /\ dev.via.t2_counter = AddrMod - 1 /\ ~dev.via.t2_running
  /\ \E lo \in ViaLows, hi \in ViaHighs :
       LET v == via_write(via_write(dev.via, VIA_REG_T1CL, lo), VIA_REG_T1CH, hi) IN
       /\ dev' = [dev EXCEPT !.via = v]
       /\ notes' = [notes EXCEPT !.op = "start", !.t1 = [n |-> v.t1_counter, age |-> 0],
                                 !.t2 = Untracked, !.since = -1, !.reloads = 0,
                                 !.spent = FALSE]
  /\ UNCHANGED <<ranges, lastop, c, mem, hist>>

StartTimer2 ==
  \* One timer is exercised at a time: timer 1 is as via_reset left it.
  /\ dev.via.t1_counter = AddrMod - 1 /\ ~dev.via.t1_running
  /\ \E lo \in ViaLows, hi \in ViaHighs :
       LET v == via_write(via_write(dev.via, VIA_REG_T2CL, lo), VIA_REG_T2CH, hi) IN
       /\ dev' = [dev EXCEPT !.via = v]
       /\ notes' = [notes EXCEPT !.op = "start", !.t2 = [n |-> v.t2_counter, age |-> 0],
                                 !.t1 = Untracked]
  /\ UNCHANGED <<ranges, lastop, c, mem, hist>>

ViaWrite ==
  /\ \E w \in ViaWrites :
       /\ dev' = [dev EXCEPT !.via = via_write(dev.via, w[1], w[2])]
       /\ notes' = [notes EXCEPT
                      !.op = "write", !.t1 = Untracked, !.t2 = Untracked,
                      !.since = IF w[1] \in {VIA_REG_T1LL, VIA_REG_T1LH, VIA_REG_ACR}
                                THEN -1 ELSE @,
                      !.reloads = IF w[1] \in {VIA_REG_T1LL, VIA_REG_T1LH, VIA_REG_ACR}
                                  THEN 0 ELSE @]
  /\ UNCHANGED <<ranges, lastop, c, mem, hist>>

ViaRead ==
  /\ \E reg \in {VIA_REG_T1CL, VIA_REG_T2CL, VIA_REG_IFR} :
       dev' = [dev EXCEPT !.via = via_read(dev.via, reg).via]
  /\ notes' = [notes EXCEPT !.op = "read", !.t1 = Untracked, !.t2 = Untracked]
  /\ UNCHANGED <<ranges, lastop, c, mem, hist>>

\* Timer 1 is running with its counter at zero: the next tick is its expiry.
T1Expiring(v) == v.t1_running /\ v.t1_counter = 0
T1Continuous(v) == BitAnd(v.acr, VIA_ACR_T1_CONTINUOUS) # 0

Aged(t) == IF t.n >= 0 /\ t.age <= t.n THEN [t EXCEPT !.age = @ + 1] ELSE Untracked

ViaTick ==
  /\ dev' = machine_tick(c, dev).dev
  /\ c' = machine_tick(c, dev).c
  /\ notes' = [notes EXCEPT
                 !.op = "tick", !.t1 = Aged(@), !.t2 = Aged(@),
                 !.since = IF T1Expiring(dev.via)
                           THEN IF T1Continuous(dev.via) THEN 0 ELSE -1
                           ELSE IF @ >= 0 /\ @ <= dev.via.t1_latch THEN @ + 1 ELSE @,
                 !.reloads = IF T1Expiring(dev.via)
                             THEN IF T1Continuous(dev.via) THEN (IF @ = 0 THEN 1 ELSE 2)
                                  ELSE 0
                             ELSE @,
                 !.spent = @ \/ (T1Expiring(dev.via) /\ ~T1Continuous(dev.via))]
  /\ UNCHANGED <<ranges, lastop, mem, hist>>

NextVia == StartTimer1 \/ StartTimer2 \/ ViaWrite \/ ViaRead \/ ViaTick

SpecVia == Init /\ [][NextVia]_vars

(***************************************************************************)
(* The ACIA under its test harness: created with or without streams, its   *)
(* registers read and written, a received byte buffered by hand as the     *)
(* tests do, while bytes arrive on the input stream and its other end may  *)
(* close.  notes keeps the register, the value and the stream byte of the  *)
(* last read.                                                              *)
(***************************************************************************)
\* Bytes arriving on the input: LF, a letter, and bytes with bit 7 set (0x8A
\* is LF with bit 7 set).
InputBytes == {10, 65, 138, 255}

\* Bytes waiting on the input, and bytes sent to the output, at most.
MaxPending == 2
MaxSent == 1

AciaCreate ==
  /\ notes.op = "none"
  /\ \E in \in BOOLEAN, out \in BOOLEAN :
       dev' = [dev EXCEPT !.acia = acia_create, !.input.attached = in,
                          !.output.attached = out]
  /\ notes' = [notes EXCEPT !.op = "acia_create"]
  /\ UNCHANGED <<ranges, lastop, c, mem, hist>>

\* A byte arrives on the input stream, or (-1) its other end closes.
InputArrives ==
  /\ dev.input.attached /\ ~dev.input.closed
  /\ \E b \in InputBytes \cup {-1} :
       IF b = -1 THEN dev' = [dev EXCEPT !.input.closed = TRUE]
       ELSE /\ Len(dev.input.pending) < MaxPending
            /\ dev' = [dev EXCEPT !.input.pending = Append(@, b)]
  /\ notes' = [notes EXCEPT !.op = "input"]
  /\ UNCHANGED <<ranges, lastop, c, mem, hist>>

\* The tests set rx_data and rx_full by hand.
BufferData ==
  /\ notes.op # "none"
  /\ dev' = [dev EXCEPT !.acia.rx_data = 66, !.acia.rx_full = TRUE]
  /\ notes' = [notes EXCEPT !.op = "buffer"]
  /\ UNCHANGED <<ranges, lastop, c, mem, hist>>

AciaRead ==
  /\ notes.op # "none"
  /\ \E reg \in 0..3 :
       LET r == acia_read(dev.acia, dev.input, reg) IN
       /\ dev' = [dev EXCEPT !.acia = r.acia, !.input = r.input]
       /\ notes' = [notes EXCEPT !.op = "acia_read", !.reg = reg, !.value = r.value,
                                 !.got = r.got, !.blocks = r.blocks]
  /\ UNCHANGED <<ranges, lastop, c, mem, hist>>

AciaWrite ==
  /\ notes.op # "none"
  /\ \E reg \in 0..3 :
       LET w == acia_write(dev.acia, dev.output, reg, 65) IN
       /\ Len(w.output.sent) <= MaxSent
       /\ dev' = [dev EXCEPT !.acia = w.acia, !.output = w.output]
  /\ notes' = [notes EXCEPT !.op = "acia_write"]
  /\ UNCHANGED <<ranges, lastop, c, mem, hist>>

NextAcia == AciaCreate \/ InputArrives \/ BufferData \/ AciaRead \/ AciaWrite

SpecAcia == Init /\ [][NextAcia]_vars

(***************************************************************************)
(* The file I/O port under its test harness: registers written and read    *)
(* and the port reset, in any order, with the host deciding what fopen and *)
(* fgetc return.                                                           *)
(***************************************************************************)
\* File names are written up to this index, and at the last index of the
\* buffer, where name_index wraps.
MaxNameLen == 2

FioWrite ==
  /\ \E reg \in FILEIO_REG_STATUS..(FILEIO_REG_NAMECHAR + 1) :
     \E value \in CASE reg = FILEIO_REG_STATUS -> FILEIO_CMD_RESET..(FILEIO_CMD_CLOSE + 1)
                     [] reg = FILEIO_REG_NAMEINDEX -> {0, FILEIO_NAME_MAXLEN - 1}
                     [] OTHER -> {0, 97} :
     \E handle \in {0} \cup Handles, byte \in {-1, 0, 65} :
       /\ reg = FILEIO_REG_NAMECHAR =>
            dev.fio.name_index < MaxNameLen \/ dev.fio.name_index = FILEIO_NAME_MAXLEN - 1
       /\ LET w == fileio_write(dev.fio, dev.host, reg, value, handle, byte) IN
          /\ dev' = [dev EXCEPT !.fio = w.fio, !.host = w.host]
          /\ notes' = [notes EXCEPT !.op = "fileio_write", !.reg = reg, !.value = value]
  /\ UNCHANGED <<ranges, lastop, c, mem, hist>>

FioRead ==
  /\ \E reg \in FILEIO_REG_STATUS..(FILEIO_REG_NAMECHAR + 1) :
       notes' = [notes EXCEPT !.op = "fileio_read", !.reg = reg,
                              !.value = fileio_read(dev.fio, reg)]
  /\ UNCHANGED <<ranges, lastop, c, mem, hist, dev>>

FioReset ==
  /\ LET r == fileio_reset(dev.fio, dev.host) IN
       dev' = [dev EXCEPT !.fio = r.fio, !.host = r.host]
  /\ notes' = [notes EXCEPT !.op = "fileio_reset"]
  /\ UNCHANGED <<ranges, lastop, c, mem, hist>>

NextFio == FioWrite \/ FioRead \/ FioReset

SpecFio == Init /\ [][NextFio]_vars

(***************************************************************************)
(* The machine: init_vmachine, then bus writes and reads and the monitor's *)
(* protect and unprotect commands, in any order.                           *)
(***************************************************************************)
\* RAM, ACIA 1 COMMAND, VIA ACR, the last address below the ROM and an
\* address of the ROM.
BusAddrs == {512, 49170, 49211, 53247, 57344}

\* A RAM page, the I/O page with every device window, the ROM and one ROM
\* address.
ProtectRanges ==
  {address_range(512, 767), address_range(49152, 53247),
   address_range(VMACHINE_ROM_START, 65535), address_range(57344, 57344)}

InitMachine ==
  /\ notes.op = "none"
  /\ ranges' = add_address_range(init_address_range_list,
                                 address_range(VMACHINE_ROM_START, 65535))
  /\ \E rom \in {0, 234} : mem' = Poke(Poke(<<>>, VMACHINE_ROM_START, <<rom>>), 57344, <<rom>>)
  /\ dev' = [dev EXCEPT !.acia = acia_create, !.acia2 = acia_create,
                        !.input.attached = TRUE, !.output.attached = TRUE,
                        !.via = via_reset, !.fio = fileio_create]
  /\ notes' = [notes EXCEPT !.op = "init_vmachine"]
  /\ UNCHANGED <<lastop, c, hist>>

BusWrite ==
  /\ notes.op # "none"
  /\ \E a \in BusAddrs, b \in {0, 85} :
     \E handle \in IF Window(a) = "fio" THEN {0} \cup Handles ELSE {0} :
     \E byte \in IF Window(a) = "fio" THEN {-1, 0, 65} ELSE {-1} :
       LET w == machine_write(mem, ranges, dev, a, b, handle, byte) IN
       /\ Len(w.dev.output.sent) <= MaxSent
       /\ mem' = w.mem
       /\ dev' = w.dev
       /\ notes' = [notes EXCEPT !.op = "machine_write", !.addr = a, !.value = b]
  /\ UNCHANGED <<ranges, lastop, c, hist>>

BusRead ==
  /\ notes.op # "none"
  /\ \E a \in BusAddrs :
       LET r == machine_read(mem, dev, a) IN
       /\ dev' = r.dev
       /\ notes' = [notes EXCEPT !.op = "machine_read", !.addr = a, !.value = 0]
  /\ UNCHANGED <<ranges, lastop, c, mem, hist>>

add_protected_range ==
  /\ notes.op # "none"
  /\ \E ar \in ProtectRanges : ranges' = add_address_range(ranges, ar)
  /\ Len(ranges') <= MaxNodes
  /\ notes' = [notes EXCEPT !.op = "protect"]
  /\ UNCHANGED <<lastop, c, mem, hist, dev>>

remove_protected_range ==
  /\ notes.op # "none"
  /\ \E ar \in ProtectRanges : ranges' = remove_address_range(ranges, ar)
  /\ Len(ranges') <= MaxNodes
  /\ notes' = [notes EXCEPT !.op = "unprotect"]
  /\ UNCHANGED <<lastop, c, mem, hist, dev>>

NextMachine ==
  InitMachine \/ BusWrite \/ BusRead \/ add_protected_range \/ remove_protected_range

SpecMachine == Init /\ [][NextMachine]_vars

(***************************************************************************)
(* SpecWord: cpu_write_address and cpu_read_address called on the test     *)
(* harness's memory, a write of a word followed by a read at the address   *)
(* it was written to.                                                      *)
(***************************************************************************)
WriteAddress ==
  /\ notes.op # "cpu_write_address"
  \* Addresses in page zero, in RAM, across a page boundary and at the top
  \* of memory, where a + 1 wraps; words with equal and unequal bytes.
  /\ \E a \in {16, 255, ProgramStart, AddrMod - 1},
        v \in {0, 1, 255, 256, 4660, 32769, 65280, 65535} :
       /\ mem' = cpu_write_address([mem |-> mem, bus |-> <<>>], a, v).mem
       /\ notes' = [notes EXCEPT !.op = "cpu_write_address", !.addr = a, !.value = v,
                                 !.got = -1]
  /\ UNCHANGED <<ranges, lastop, c, hist, dev>>

ReadAddress ==
  /\ notes.op = "cpu_write_address"
  /\ notes' = [notes EXCEPT !.op = "cpu_read_address",
                            !.got = cpu_read_address([mem |-> mem], notes.addr)]
  /\ UNCHANGED <<ranges, lastop, c, mem, hist, dev>>

NextWord == WriteAddress \/ ReadAddress

SpecWord == Init /\ [][NextWord]_vars

(***************************************************************************)
(* Reading the history.                                                    *)
(***************************************************************************)
Steps == {i \in 1..Len(hist) : hist[i].kind = "step"}

\* The opcode a step fetched, and the word a memory holds at an address.
OpcodeOf(e) == test_read(e.before.mem, e.before.c.pc)
WordAt(memory, a) == test_read(memory, Addr(a + 1)) * ByteMod + test_read(memory, a)
StackAt(memory, s) == test_read(memory, 256 + (s % ByteMod))

\* Steps i and i + 1 were taken back to back: no request came in between and
\* neither serviced an interrupt.
Consecutive(i) ==
  /\ i \in Steps /\ i + 1 \in Steps
  /\ hist[i + 1].before = hist[i].after
  /\ hist[i].frames = <<>> /\ hist[i + 1].frames = <<>>

\* Where frame k of step e came from: the BRK instruction, or the check after
\* the instruction (NMI if the NMI latch was set, else IRQ).
FrameSource(e, k) ==
  IF k = 1 /\ OpcodeOf(e) = 0 THEN "BRK"
  ELSE IF e.polled.nmi THEN "NMI" ELSE "IRQ"

Frames == {<<i, k>> \in (1..Len(hist)) \X (1..2) :
             i \in Steps /\ k <= Len(hist[i].frames)}

(***************************************************************************)
(* C1. After any sequence of add_range / remove_range from the empty list, *)
(* the stored intervals are sorted by start, pairwise non-overlapping and  *)
(* non-adjacent: previous.end + 1 < next.start for consecutive intervals.  *)
(***************************************************************************)
C1_SortedDisjointNonAdjacent ==
  /\ \A i \in 1..Len(ranges) : ranges[i].start <= ranges[i].end
  /\ \A i \in 1..(Len(ranges) - 1) : ranges[i].end + 1 < ranges[i + 1].start

\* An add whose range bridged two stored intervals and left them adjacent.
C1_Witness ==
  /\ lastop.op = "add"
  /\ Len(lastop.before) = 2
  /\ Len(ranges) = 2
  /\ ranges # lastop.before
  /\ ranges[1].end + 1 = ranges[2].start

(***************************************************************************)
(* C2. With nmi and irq both pending and irq-disable clear, a step that    *)
(* executes a NOP ends with PC = the word at 0xFFFA, the nmi latch clear   *)
(* and the irq latch still set.                                            *)
(***************************************************************************)
BothPendingNop(i) ==
  /\ hist[i].before.c.nmi /\ hist[i].before.c.irq
  /\ Bit(hist[i].before.c.sr, IRQ_DISABLE) = 0
  /\ OpcodeOf(hist[i]) = 234

C2_NmiBeforeIrq ==
  \A i \in Steps :
    BothPendingNop(i) =>
      /\ hist[i].after.c.pc = WordAt(hist[i].after.mem, NMI_VECTOR)
      /\ ~hist[i].after.c.nmi
      /\ hist[i].after.c.irq

C2_Witness ==
  \E i \in Steps :
    /\ BothPendingNop(i)
    /\ WordAt(hist[i].after.mem, NMI_VECTOR) # WordAt(hist[i].after.mem, IRQ_VECTOR)
    /\ hist[i].after.c.pc = NmiHandler

(***************************************************************************)
(* C3. At the check after an instruction with no NMI pending, a pending    *)
(* IRQ is serviced (latch cleared, PC from 0xFFFE) iff irq-disable is      *)
(* clear at that check; otherwise nothing is serviced and the latch stays  *)
(* set, step after step, until an instruction leaves irq-disable clear.    *)
(***************************************************************************)
IrqPolled(i) == ~hist[i].polled.nmi /\ hist[i].polled.irq

IrqServiced(i) ==
  /\ hist[i].frames # <<>>
  /\ LET f == hist[i].frames[Len(hist[i].frames)] IN
       /\ FrameSource(hist[i], Len(hist[i].frames)) = "IRQ"
       /\ f.sr = hist[i].polled.sr
  /\ ~hist[i].after.c.irq
  /\ hist[i].after.c.pc = WordAt(hist[i].after.mem, IRQ_VECTOR)

IrqHeld(i) ==
  /\ \A k \in 1..Len(hist[i].frames) : FrameSource(hist[i], k) = "BRK"
  /\ hist[i].after.c.irq
  /\ hist[i].frames = <<>> => hist[i].after.c.sr = hist[i].polled.sr

C3_IrqMaskedIffDisabled ==
  \A i \in Steps :
    IrqPolled(i) =>
      IF Bit(hist[i].polled.sr, IRQ_DISABLE) = 0 THEN IrqServiced(i) ELSE IrqHeld(i)

\* Masked through one step, serviced by the next, which cleared irq-disable.
C3_Witness ==
  \E i \in Steps :
    /\ i + 1 \in Steps
    /\ IrqPolled(i) /\ IrqHeld(i) /\ hist[i].frames = <<>>
    /\ hist[i + 1].before = hist[i].after
    /\ Bit(hist[i + 1].before.c.sr, IRQ_DISABLE) = 1
    /\ IrqPolled(i + 1) /\ IrqServiced(i + 1)

(***************************************************************************)
(* C4. NMI is never masked: a step that executes an instruction while the  *)
(* nmi latch is set ends with the latch clear and PC = the word at 0xFFFA, *)
(* whatever the instruction and the status register.                       *)
(***************************************************************************)
C4_NmiNeverMasked ==
  \A i \in Steps :
    hist[i].before.c.nmi =>
      /\ ~hist[i].after.c.nmi
      /\ hist[i].after.c.pc = WordAt(hist[i].after.mem, NMI_VECTOR)
      /\ hist[i].frames # <<>>
      /\ hist[i].frames[Len(hist[i].frames)].vector = NMI_VECTOR

\* An NMI taken with irq-disable set at the check, after something other than NOP.
C4_Witness ==
  \E i \in Steps :
    /\ hist[i].before.c.nmi
    /\ Bit(hist[i].polled.sr, IRQ_DISABLE) = 1
    /\ OpcodeOf(hist[i]) # 234
    /\ hist[i].after.c.pc = NmiHandler

(***************************************************************************)
(* C5. Every interrupt service (BRK, IRQ, NMI) entered with stack pointer  *)
(* s and return address R leaves R's high byte at 0x0100+s, R's low byte   *)
(* at 0x0100+((s-1) mod 256), the pushed status byte at                    *)
(* 0x0100+((s-2) mod 256), SP = (s-3) mod 256, irq-disable set, and PC =   *)
(* the word at the source's vector (0xFFFE for BRK/IRQ, 0xFFFA for NMI).   *)
(***************************************************************************)
\* The status byte of a frame: the live SR with bit 5 forced to 1 and bit 4
\* set iff the source is BRK.
StatusByte(sr, source) ==
  sr - 32 * Bit(sr, 5) - 16 * Bit(sr, BREAK_FLAG) + 32
     + (IF source = "BRK" THEN 16 ELSE 0)

FrameAsSpecified(i, k) ==
  LET e == hist[i]
      f == e.frames[k]
      source == FrameSource(e, k)
  IN /\ StackAt(f.mem_after, f.sp) = f.pc \div ByteMod
     /\ StackAt(f.mem_after, f.sp + 255) = f.pc % ByteMod
     /\ StackAt(f.mem_after, f.sp + 254) = StatusByte(f.sr, source)
     /\ f.sp_after = (f.sp + 253) % ByteMod
     /\ Bit(f.sr_after, IRQ_DISABLE) = 1
     /\ f.pc_after = WordAt(f.mem_after,
                            IF source = "NMI" THEN NMI_VECTOR ELSE IRQ_VECTOR)
     /\ source = "BRK" =>
          /\ f.pc = Addr(e.before.c.pc + 2)
          /\ f.sp = e.before.c.sp

C5_InterruptFrame == \A x \in Frames : FrameAsSpecified(x[1], x[2])

\* An NMI frame whose pushes wrap from 0x0100 to 0x01FF.
C5_Witness ==
  \E x \in Frames :
    LET f == hist[x[1]].frames[x[2]] IN
      /\ FrameSource(hist[x[1]], x[2]) = "NMI"
      /\ f.sp = 1
      /\ f.sp_after = 254
      /\ f.pc \div ByteMod # f.pc % ByteMod

(***************************************************************************)
(* C6. Every status byte written to the stack, by PHP or by a BRK, IRQ or  *)
(* NMI service, has bit 5 equal to 1, whatever the live SR.                *)
(***************************************************************************)
DecodesPhp(i) == instructions[OpcodeOf(hist[i]) + 1] = "PHP"

\* The byte PHP pushed: its write follows the opcode fetch.
PhpPush(i) == hist[i].bus[2]

C6_PushedBit5 ==
  /\ \A x \in Frames :
       LET f == hist[x[1]].frames[x[2]] IN
         Bit(StackAt(f.mem_after, f.sp + 254), 5) = 1
  /\ \A i \in Steps :
       DecodesPhp(i) =>
         /\ PhpPush(i)[1] = "w"
         /\ PhpPush(i)[2] = 256 + hist[i].before.c.sp
         /\ Bit(PhpPush(i)[3], 5) = 1

\* PHP executed while bit 5 of the live SR was clear.
C6_Witness ==
  \E i \in Steps :
    /\ OpcodeOf(hist[i]) = 8
    /\ Bit(hist[i].before.c.sr, 5) = 0
    /\ hist[i].after.c.sp = (hist[i].before.c.sp + 255) % ByteMod

(***************************************************************************)
(* C7. In the status byte of an interrupt frame, bit 4 is 1 when BRK       *)
(* pushed the frame and 0 when IRQ or NMI service pushed it, whatever bit  *)
(* 4 of the live SR is.                                                    *)
(***************************************************************************)
C7_BreakBitOnlyForBrk ==
  \A x \in Frames :
    LET f == hist[x[1]].frames[x[2]] IN
      Bit(StackAt(f.mem_after, f.sp + 254), BREAK_FLAG)
        = (IF FrameSource(hist[x[1]], x[2]) = "BRK" THEN 1 ELSE 0)

\* An IRQ frame pushed while bit 4 of the live SR was set.
C7_Witness ==
  \E x \in Frames :
    LET f == hist[x[1]].frames[x[2]] IN
      /\ FrameSource(hist[x[1]], x[2]) = "IRQ"
      /\ Bit(f.sr, BREAK_FLAG) = 1

(***************************************************************************)
(* C8. JSR at p followed by the RTS at its target, for every initial SP s  *)
(* and no interrupt pending, leaves PC = p + 3 and SP = s; after the JSR   *)
(* alone 0x0100+s holds the high byte and 0x0100+((s-1) mod 256) the low   *)
(* byte of p + 2.                                                          *)
(***************************************************************************)
JsrThenRts(i) ==
  /\ Consecutive(i)
  /\ OpcodeOf(hist[i]) = 32
  /\ OpcodeOf(hist[i + 1]) = 96

C8_JsrRtsRoundTrip ==
  \A i \in Steps :
    JsrThenRts(i) =>
      LET p == hist[i].before.c.pc
          s == hist[i].before.c.sp
      IN /\ hist[i].after.c.pc = WordAt(hist[i].before.mem, p + 1)
         /\ StackAt(hist[i].after.mem, s) = Addr(p + 2) \div ByteMod
         /\ StackAt(hist[i].after.mem, s + 255) = Addr(p + 2) % ByteMod
         /\ hist[i].after.c.sp = (s + 254) % ByteMod
         /\ hist[i + 1].after.c.pc = Addr(p + 3)
         /\ hist[i + 1].after.c.sp = s

\* The pushes wrap the stack page and the return address crosses a page.
C8_Witness ==
  \E i \in Steps :
    /\ JsrThenRts(i)
    /\ hist[i].before.c.sp = 0
    /\ hist[i].before.c.pc = 766
    /\ hist[i + 1].after.c.pc = 769

(***************************************************************************)
(* C9. Interrupt entry followed at once by RTI is a round trip: SP and SR  *)
(* return to their values just before the entry, and PC to p + 2 for a BRK *)
(* at p, to the successor of the interrupted instruction for IRQ and NMI.  *)
(***************************************************************************)
EntryThenRti(i) ==
  /\ i \in Steps /\ i + 1 \in Steps
  /\ hist[i + 1].before = hist[i].after
  /\ Len(hist[i].frames) = 1
  /\ hist[i + 1].frames = <<>>
  /\ OpcodeOf(hist[i + 1]) = 64

C9_EntryRtiRoundTrip ==
  \A i \in Steps :
    EntryThenRti(i) =>
      LET f == hist[i].frames[1]
          p == hist[i].before.c.pc
          back == hist[i + 1].after.c
      IN /\ back.sp = f.sp
         /\ back.sr = f.sr
         /\ back.pc = f.pc
         /\ IF FrameSource(hist[i], 1) = "BRK"
            THEN /\ f.sp = hist[i].before.c.sp
                 /\ f.sr = hist[i].before.c.sr
                 /\ f.pc = Addr(p + 2)
            ELSE /\ f.sr = hist[i].polled.sr
                 /\ OpcodeOf(hist[i]) = 234 => f.pc = Addr(p + 1)

\* An IRQ taken after CLI, with bit 5 of SR clear, and returned from.
C9_Witness ==
  \E i \in Steps :
    /\ EntryThenRti(i)
    /\ FrameSource(hist[i], 1) = "IRQ"
    /\ Bit(hist[i].frames[1].sr, 5) = 0
    /\ hist[i + 1].after.c.pc = hist[i].before.c.pc + 1

(***************************************************************************)
(* C10. After a push followed at once by the matching pop (PHA then PLA,   *)
(* PHP then PLP), for every initial SP, SP and the contents of             *)
(* 0x0100..0x01FF equal what they were before the push.                    *)
(***************************************************************************)
PushThenPop(i) ==
  /\ Consecutive(i)
  /\ \/ OpcodeOf(hist[i]) = 72 /\ OpcodeOf(hist[i + 1]) = 104
     \/ OpcodeOf(hist[i]) = 8 /\ OpcodeOf(hist[i + 1]) = 40

C10_PushPopRestores ==
  \A i \in Steps :
    PushThenPop(i) =>
      /\ hist[i + 1].after.c.sp = hist[i].before.c.sp
      /\ \A a \in 256..511 :
           test_read(hist[i + 1].after.mem, a) = test_read(hist[i].before.mem, a)

\* PHP followed by opcode 0x28, which the table decodes as PHP: two pushes.
C10_Witness ==
  \E i \in Steps :
    /\ Consecutive(i)
    /\ OpcodeOf(hist[i]) = 8 /\ OpcodeOf(hist[i + 1]) = 40
    /\ instructions[40 + 1] = "PHP"
    /\ hist[i + 1].after.c.sp = (hist[i].before.c.sp + 254) % ByteMod

(***************************************************************************)
(* C11. Every stack access touches exactly 0x0100 + SP, within             *)
(* 0x0100..0x01FF, for every SP including 0x00 and 0xFF: a push writes at  *)
(* the current SP and then decrements SP modulo 256, a pop increments SP   *)
(* modulo 256 and then reads at the new SP.                                *)
(***************************************************************************)
\* The pushes (-1) and pops (+1) of the instruction a step decodes, in order,
\* and the number of bus accesses that come before them.
StackOps(e) ==
  LET instruction == instructions[OpcodeOf(e) + 1] IN
  CASE instruction \in {"PHA", "PHP"} -> <<-1>>
    [] instruction = "PLA" -> <<1>>
    [] instruction = "JSR" -> <<-1, -1>>
    [] instruction = "RTS" -> <<1, 1>>
    [] instruction = "RTI" -> <<1, 1, 1>>
    [] OTHER -> <<>>

StackLead(e) == IF instructions[OpcodeOf(e) + 1] = "JSR" THEN 4 ELSE 1

\* SP after the first k of a sequence of pushes and pops starting at SP s.
RECURSIVE SpAfter(_, _, _)
SpAfter(s, ops, k) ==
  IF k = 0 THEN s ELSE (SpAfter(s, ops, k - 1) + ops[k] + ByteMod) % ByteMod

\* Access j of the instruction's stack accesses is as the claim says.
StackAccessAsSpecified(e, j) ==
  LET ops == StackOps(e)
      s == e.before.c.sp
      x == e.bus[StackLead(e) + j]
      at == IF ops[j] = -1 THEN SpAfter(s, ops, j - 1) ELSE SpAfter(s, ops, j)
  IN /\ x[1] = (IF ops[j] = -1 THEN "w" ELSE "r")
     /\ x[2] = 256 + at
     /\ x[2] \in 256..511

\* SP when the instruction of a step is done, before any interrupt service.
SpAfterInstruction(e) ==
  IF e.frames = <<>> THEN e.after.c.sp
  ELSE IF OpcodeOf(e) = 0 THEN e.before.c.sp ELSE e.frames[1].sp

C11_StackAccessAtSp ==
  \A i \in Steps :
    LET e == hist[i] IN
      /\ Len(e.bus) >= StackLead(e) + Len(StackOps(e))
      /\ \A j \in 1..Len(StackOps(e)) : StackAccessAsSpecified(e, j)
      /\ SpAfterInstruction(e) = SpAfter(e.before.c.sp, StackOps(e), Len(StackOps(e)))
      /\ \A k \in 1..Len(e.frames) :
           \E n \in 1..(Len(e.bus) - 2) :
             \A j \in 0..2 :
               /\ e.bus[n + j][1] = "w"
               /\ e.bus[n + j][2] = 256 + ((e.frames[k].sp + ByteMod - j) % ByteMod)

\* A JSR whose pushes wrap SP from 0x00 to 0xFF, then the RTS whose pops wrap
\* it from 0xFF to 0x00.
C11_Witness ==
  \E i \in Steps :
    /\ JsrThenRts(i)
    /\ hist[i].before.c.sp = 0
    /\ hist[i].bus[5][2] = 256 /\ hist[i].bus[6][2] = 511
    /\ hist[i + 1].bus[2] = <<"r", 511>> /\ hist[i + 1].bus[3] = <<"r", 256>>
    /\ hist[i + 1].after.c.sp = 0

(***************************************************************************)
(* C12. For every opcode byte b in 0..255, one step executing b from a     *)
(* freshly reset CPU with no interrupt pending either advances PC by the   *)
(* documented length of the instruction (1, 2 or 3 bytes, the 65C02        *)
(* additions and the multi-byte reserved NOPs included) or, for branches,  *)
(* JMP, JSR, RTS, RTI and BRK, sets PC to the documented transfer target.  *)
(***************************************************************************)
\* The documented length of opcode b on the 65C02, by column of the opcode
\* matrix.
DocumentedLength(b) ==
  LET col == b % 16
      row == b \div 16
  IN CASE col = 0 -> IF b \in {0, 64, 96} THEN 1 ELSE IF b = 32 THEN 3 ELSE 2
       [] col \in {1, 2, 4, 5, 6, 7} -> 2
       [] col \in {3, 8, 10, 11} -> 1
       [] col = 9 -> IF row % 2 = 0 THEN 2 ELSE 3
       [] OTHER -> 3

\* The documented condition of the conditional branches, by bits 7..5 of the
\* opcode: the flag tested (N, V, C, Z) and the value that takes the branch.
BranchTaken(b, sr) ==
  LET flag == CASE b \div 64 = 0 -> NEGATIVE_FLAG
                [] b \div 64 = 1 -> OVERFLOW_FLAG
                [] b \div 64 = 2 -> CARRY_FLAG
                [] OTHER -> ZERO_FLAG
  IN Bit(sr, flag) = (b \div 32) % 2

\* The documented PC after the instruction at p.
DocumentedPc(e) ==
  LET p == e.before.c.pc
      b == OpcodeOf(e)
      memory == e.before.mem
      o1 == test_read(memory, Addr(p + 1))
      o2 == test_read(memory, Addr(p + 2))
      word == o2 * ByteMod + o1
      s == e.before.c.sp
      rel(n, off) == Addr(p + n + (IF off >= 128 THEN off - ByteMod ELSE off) + AddrMod)
  IN CASE b = 0 -> WordAt(memory, IRQ_VECTOR)
       [] b = 32 -> word
       [] b = 64 -> StackAt(memory, s + 3) * ByteMod + StackAt(memory, s + 2)
       [] b = 96 -> Addr(StackAt(memory, s + 2) * ByteMod + StackAt(memory, s + 1) + 1)
       [] b = 76 -> word
       [] b = 108 -> WordAt(memory, word)
       [] b = 124 -> WordAt(memory, Addr(word + e.before.c.x))
       [] b = 128 -> rel(2, o1)
       [] b % 32 = 16 -> IF BranchTaken(b, e.before.c.sr) THEN rel(2, o1) ELSE Addr(p + 2)
       [] b % 16 = 15 ->
            IF Bit(test_read(memory, o1), (b \div 16) % 8) = (b \div 128)
            THEN rel(3, o2) ELSE Addr(p + 3)
       [] OTHER -> Addr(p + DocumentedLength(b))

\* The step right after the step that performed the reset.
FreshlyReset(i) ==
  /\ i \in Steps /\ i > 1
  /\ hist[i - 1].kind = "reset"
  /\ hist[i].before = hist[i - 1].after

C12_DocumentedPc ==
  \A i \in Steps : FreshlyReset(i) => hist[i].after.c.pc = DocumentedPc(hist[i])

\* BRA with offset +16 from a freshly reset CPU falls through to p + 2.
C12_Witness ==
  \E i \in Steps :
    /\ FreshlyReset(i)
    /\ OpcodeOf(hist[i]) = 128
    /\ instructions[128 + 1] = "BRA"
    /\ test_read(hist[i].before.mem, hist[i].before.c.pc + 1) = 16
    /\ hist[i].after.c.pc = hist[i].before.c.pc + 2

(***************************************************************************)
(* The operands and results of an ADC #M / SBC #M step.                    *)
(***************************************************************************)
AluStep(i, opcode, decimal) ==
  /\ i \in Steps
  /\ OpcodeOf(hist[i]) = opcode
  /\ Bit(hist[i].before.c.sr, BCD_FLAG) = decimal
  /\ hist[i].frames = <<>>

OperandA(i) == hist[i].before.c.a
OperandM(i) == test_read(hist[i].before.mem, Addr(hist[i].before.c.pc + 1))
CarryIn(i) == Bit(hist[i].before.c.sr, CARRY_FLAG)
ResultA(i) == hist[i].after.c.a
CarryOut(i) == Bit(hist[i].after.c.sr, CARRY_FLAG)
OverflowOut(i) == Bit(hist[i].after.c.sr, OVERFLOW_FLAG)

\* ((x ^ r) & (y ^ r) & 0x80) != 0, as 1 or 0: bit 7 of r differs from bit 7
\* of x and from bit 7 of y.
SignsDiffer(x, y, r) ==
  IF Bit(x, 7) # Bit(r, 7) /\ Bit(y, 7) # Bit(r, 7) THEN 1 ELSE 0

\* The overflow the binary-mode formulas give for A, M and carry-in c.
AdcOverflow(A, M, cin) == SignsDiffer(A, M, (A + M + cin) % ByteMod)
SbcOverflow(A, M, cin) ==
  LET r == (A - M - (1 - cin) + ByteMod) % ByteMod
  IN IF Bit(A, 7) # Bit(M, 7) /\ Bit(A, 7) # Bit(r, 7) THEN 1 ELSE 0

(***************************************************************************)
(* C13. Binary mode, all A, M, carry-in c: ADC leaves A' = (A + M + c) mod *)
(* 256, carry set iff A + M + c > 255, V set iff                           *)
(* ((A ^ A') & (M ^ A') & 0x80) != 0.                                      *)
(***************************************************************************)
C13_AdcBinary ==
  \A i \in Steps :
    AluStep(i, 105, 0) =>
      LET sum == OperandA(i) + OperandM(i) + CarryIn(i) IN
        /\ ResultA(i) = sum % ByteMod
        /\ CarryOut(i) = (IF sum > 255 THEN 1 ELSE 0)
        /\ OverflowOut(i) = SignsDiffer(OperandA(i), OperandM(i), ResultA(i))

\* 0x7F + 0x80 + 1 = 0x100: carry out, no overflow, A' = 0, with V set before.
C13_Witness ==
  \E i \in Steps :
    /\ AluStep(i, 105, 0)
    /\ OperandA(i) = 127 /\ OperandM(i) = 128 /\ CarryIn(i) = 1
    /\ Bit(hist[i].before.c.sr, OVERFLOW_FLAG) = 1
    /\ ResultA(i) = 0 /\ CarryOut(i) = 1 /\ OverflowOut(i) = 0

(***************************************************************************)
(* C14. Binary mode, all A, M, carry-in c: SBC leaves                      *)
(* A' = (A - M - (1 - c)) mod 256, carry set iff A - M - (1 - c) >= 0, V   *)
(* set iff ((A ^ M) & (A ^ A') & 0x80) != 0.                               *)
(***************************************************************************)
C14_SbcBinary ==
  \A i \in Steps :
    AluStep(i, 233, 0) =>
      LET diff == OperandA(i) - OperandM(i) - (1 - CarryIn(i)) IN
        /\ ResultA(i) = (diff + ByteMod) % ByteMod
        /\ CarryOut(i) = (IF diff >= 0 THEN 1 ELSE 0)
        /\ OverflowOut(i) =
             (IF Bit(OperandA(i), 7) # Bit(OperandM(i), 7)
                 /\ Bit(OperandA(i), 7) # Bit(ResultA(i), 7) THEN 1 ELSE 0)

\* 0x80 - 0x80 - 1 = -1: borrow, A' = 0xFF, no overflow.
C14_Witness ==
  \E i \in Steps :
    /\ AluStep(i, 233, 0)
    /\ OperandA(i) = 128 /\ OperandM(i) = 128 /\ CarryIn(i) = 0
    /\ ResultA(i) = 255 /\ CarryOut(i) = 0 /\ OverflowOut(i) = 0

(***************************************************************************)
(* C15. Decimal flag set, all A, M, carry-in c: on the 6502 variant V is 0 *)
(* after every ADC and SBC; on the 65C02 variant V after ADC / SBC is what *)
(* the binary-mode overflow formula gives for the same A, M, c.            *)
(***************************************************************************)
C15_DecimalOverflow ==
  \A i \in Steps :
    /\ AluStep(i, 105, 1) =>
         OverflowOut(i) =
           (IF hist[i].before.c.variant = "CPU_6502" THEN 0
            ELSE AdcOverflow(OperandA(i), OperandM(i), CarryIn(i)))
    /\ AluStep(i, 233, 1) =>
         OverflowOut(i) =
           (IF hist[i].before.c.variant = "CPU_6502" THEN 0
            ELSE SbcOverflow(OperandA(i), OperandM(i), CarryIn(i)))

\* On the 6502 a decimal ADC that would overflow in binary clears a set V; on
\* the 65C02 the same ADC sets a clear V.
C15_Witness ==
  \E i \in Steps :
    /\ AluStep(i, 105, 1)
    /\ OperandA(i) = 127 /\ OperandM(i) = 1 /\ CarryIn(i) = 0
    /\ \/ /\ hist[i].before.c.variant = "CPU_6502"
          /\ Bit(hist[i].before.c.sr, OVERFLOW_FLAG) = 1 /\ OverflowOut(i) = 0
       \/ /\ hist[i].before.c.variant = "CPU_65C02"
          /\ Bit(hist[i].before.c.sr, OVERFLOW_FLAG) = 0 /\ OverflowOut(i) = 1

(***************************************************************************)
(* C16. Decimal flag set, valid BCD A and M (each nibble <= 9), carry-in   *)
(* c: ADC leaves A = BCD of (dec(A) + dec(M) + c) mod 100 and sets carry   *)
(* iff dec(A) + dec(M) + c >= 100; 0x99 + 0x01 + 0 gives 0x00, carry set.  *)
(***************************************************************************)
ValidBcd(v) == v % 16 <= 9 /\ v \div 16 <= 9
Dec(v) == (v \div 16) * 10 + (v % 16)
Bcd(n) == (n \div 10) * 16 + (n % 10)

C16_AdcDecimal ==
  \A i \in Steps :
    (AluStep(i, 105, 1) /\ ValidBcd(OperandA(i)) /\ ValidBcd(OperandM(i))) =>
      LET sum == Dec(OperandA(i)) + Dec(OperandM(i)) + CarryIn(i) IN
        /\ ResultA(i) = Bcd(sum % 100)
        /\ CarryOut(i) = (IF sum >= 100 THEN 1 ELSE 0)

C16_Witness ==
  \E i \in Steps :
    /\ AluStep(i, 105, 1)
    /\ OperandA(i) = 153 /\ OperandM(i) = 1 /\ CarryIn(i) = 0
    /\ ResultA(i) = 0 /\ CarryOut(i) = 1

(***************************************************************************)
(* C17. Zero-page X-indexed and Y-indexed addressing, every operand byte z *)
(* and index i: the effective address is (z + i) mod 256, so the operand   *)
(* access is always in 0x0000..0x00FF (LDA $FF,X with X = 1 reads $00,     *)
(* never $100).                                                            *)
(***************************************************************************)
OperandByte(e, k) == test_read(e.before.mem, Addr(e.before.c.pc + k))

\* The step decodes a zero-page indexed mode; its index register.
ZeroPageIndexed(i) ==
  /\ i \in Steps
  /\ addressings[OpcodeOf(hist[i]) + 1] \in {"ZPX", "ZPY"}

IndexOf(e) ==
  IF addressings[OpcodeOf(e) + 1] = "ZPX" THEN e.before.c.x ELSE e.before.c.y

C17_ZeroPageIndexedWraps ==
  \A i \in Steps :
    ZeroPageIndexed(i) =>
      LET e == hist[i]
          ea == (OperandByte(e, 1) + IndexOf(e)) % ByteMod
      IN /\ e.bus[1] = <<"r", e.before.c.pc>>
         /\ e.bus[2] = <<"r", Addr(e.before.c.pc + 1)>>
         /\ Len(e.bus) >= 3
         /\ \A n \in 3..Len(e.bus) : e.bus[n][2] = ea /\ e.bus[n][2] \in 0..255

\* LDA $FF,X with X = 1 reads $00 and loads the byte stored there.
C17_Witness ==
  \E i \in Steps :
    /\ ZeroPageIndexed(i)
    /\ OpcodeOf(hist[i]) = 181
    /\ OperandByte(hist[i], 1) = 255 /\ hist[i].before.c.x = 1
    /\ hist[i].bus = <<<<"r", 512>>, <<"r", 513>>, <<"r", 0>>>>
    /\ hist[i].after.c.a = 18

(***************************************************************************)
(* C18. In every mode that fetches a pointer from zero page ((zp,X),       *)
(* (zp),Y and the 65C02 (zp)), for every operand and index value, both     *)
(* pointer bytes are read from 0x0000..0x00FF: the high byte from          *)
(* (low-byte address + 1) mod 256, never from 0x0100.                      *)
(***************************************************************************)
ZeroPagePointer(i) ==
  /\ i \in Steps
  /\ addressings[OpcodeOf(hist[i]) + 1] \in {"INX", "INY", "ZPI"}

\* Where the low pointer byte lies: z + X for (zp,X), z for (zp),Y and (zp).
PointerAt(e) ==
  IF addressings[OpcodeOf(e) + 1] = "INX"
  THEN (OperandByte(e, 1) + e.before.c.x) % ByteMod
  ELSE OperandByte(e, 1)

C18_PointerInPageZero ==
  \A i \in Steps :
    ZeroPagePointer(i) =>
      LET e == hist[i] IN
        /\ Len(e.bus) >= 4
        /\ e.bus[3] = <<"r", PointerAt(e)>>
        /\ e.bus[4] = <<"r", (PointerAt(e) + 1) % ByteMod>>

\* LDA ($FF): the high pointer byte is read from 0x0100.
C18_Witness ==
  \E i \in Steps :
    /\ ZeroPagePointer(i)
    /\ OpcodeOf(hist[i]) = 178
    /\ OperandByte(hist[i], 1) = 255
    /\ hist[i].bus[3] = <<"r", 255>>
    /\ hist[i].bus[4] = <<"r", 256>>

\* The part of C18 about (zp,X) and (zp),Y, where the code wraps.
C18_IndexedPointerInPageZero ==
  \A i \in Steps :
    (ZeroPagePointer(i) /\ addressings[OpcodeOf(hist[i]) + 1] # "ZPI") =>
      /\ hist[i].bus[3] = <<"r", PointerAt(hist[i])>>
      /\ hist[i].bus[4] = <<"r", (PointerAt(hist[i]) + 1) % ByteMod>>

(***************************************************************************)
(* C19. For every store instruction (STA, STX, STY, STZ) in every          *)
(* addressing mode it supports, the step issues no bus read of the         *)
(* effective address: its only bus reads are the opcode and operand        *)
(* fetches and, for the indirect modes, the two pointer bytes.             *)
(***************************************************************************)
StoreStep(i, mnemonics) ==
  /\ i \in Steps
  /\ instructions[OpcodeOf(hist[i]) + 1] \in mnemonics
  /\ hist[i].frames = <<>>

IsRead(x) == x[1] = "r"
Reads(e) == SelectSeq(e.bus, IsRead)

\* Bytes of the instruction and pointer bytes of its addressing mode.
FetchCount(e) ==
  IF addressings[OpcodeOf(e) + 1] \in {"ABS", "ABX", "ABY"} THEN 3 ELSE 2
PointerCount(e) ==
  IF addressings[OpcodeOf(e) + 1] \in {"INX", "INY", "ZPI"} THEN 2 ELSE 0

OnlyFetchesAndPointerRead(e) ==
  /\ Len(Reads(e)) = FetchCount(e) + PointerCount(e)
  /\ \A k \in 1..FetchCount(e) : Reads(e)[k] = <<"r", Addr(e.before.c.pc + k - 1)>>
  /\ PointerCount(e) = 2 => Reads(e)[FetchCount(e) + 1] = <<"r", PointerAt(e)>>

C19_StoreNoPreRead ==
  \A i \in Steps :
    StoreStep(i, {"STA", "STX", "STY", "STZ"}) => OnlyFetchesAndPointerRead(hist[i])

\* STZ $80 reads 0x0080 after its two fetches, and writes nothing.
C19_Witness ==
  \E i \in Steps :
    /\ StoreStep(i, {"STZ"})
    /\ OpcodeOf(hist[i]) = 100
    /\ hist[i].bus = <<<<"r", 512>>, <<"r", 513>>, <<"r", 128>>>>

\* The part of C19 about STA, STX and STY, which _is_store names.
C19_StaStxStyNoPreRead ==
  \A i \in Steps :
    StoreStep(i, {"STA", "STX", "STY"}) => OnlyFetchesAndPointerRead(hist[i])

(***************************************************************************)
(* C20. Each call of step() executes exactly one instruction and, when a   *)
(* tick callback is installed, invokes that callback exactly once, after   *)
(* the instruction's last bus access and before the next instruction's     *)
(* opcode fetch; run() is a loop of such steps.                            *)
(***************************************************************************)
StepCalls == {i \in 1..Len(hist) : hist[i].kind \in {"step", "reset"}}

KindAt(j) == IF j \in 1..Len(hist) THEN hist[j].kind ELSE "none"

\* Entry i was made by cpu_run.
InRunAt(i) ==
  \E r \in 1..(i - 1) :
    /\ hist[r].kind = "run"
    /\ \A j \in (r + 1)..i : hist[j].kind # "return"

\* The call fetched an opcode at the PC it was entered with.
ExecutesAnInstruction(e) ==
  e.kind = "step" /\ e.bus # <<>> /\ Head(e.bus) = <<"r", e.before.c.pc>>

\* The call only read the reset vector.
OnlyResets(e) ==
  e.kind = "reset" /\ e.bus = <<<<"r", RESET_VECTOR>>, <<"r", RESET_VECTOR + 1>>>>

TickedOnceAfter(i) == KindAt(i + 1) = "tick" /\ KindAt(i + 2) # "tick"

ResetPending(i) ==
  i \in 1..Len(hist) /\ hist[i].kind \in {"step", "reset"} /\ hist[i].before.c.reset

C21_ResetStep ==
  \A i \in 1..Len(hist) :
    ResetPending(i) =>
      /\ hist[i].after.c =
           [hist[i].before.c EXCEPT
              !.pc = WordAt(hist[i].before.mem, RESET_VECTOR),
              !.a = 0, !.x = 0, !.y = 0, !.sr = 54, !.sp = 253,
              !.halted = FALSE, !.reset = FALSE, !.irq = FALSE, !.nmi = FALSE]
      /\ hist[i].after.mem = hist[i].before.mem
      /\ hist[i].bus = <<<<"r", RESET_VECTOR>>, <<"r", RESET_VECTOR + 1>>>>
      /\ hist[i].frames = <<>>

\* A reset step taken with every register, the halted latch and both
\* interrupt latches set, SR all ones, and the vector pointing at 0x1234.
C21_Witness ==
  \E i \in 1..Len(hist) :
    /\ ResetPending(i)
    /\ hist[i].before.c.a = 255 /\ hist[i].before.c.x = 255 /\ hist[i].before.c.y = 255
    /\ hist[i].before.c.sr = 255 /\ hist[i].before.c.sp = 0
    /\ hist[i].before.c.halted /\ hist[i].before.c.irq /\ hist[i].before.c.nmi
    /\ hist[i].after.c.pc = 4660

(***************************************************************************)
(* C22. If halt() is called while run() is active, run() returns after the *)
(* step in progress completes and never begins another instruction; halt() *)
(* itself changes nothing but the halted latch.                            *)
(***************************************************************************)
\* Step i was made by cpu_run and cpu_halt was called during its iteration.
HaltedDuring(i) ==
  i \in StepCalls /\ InRunAt(i) /\ hist[i].halt # "none"

\* The entry that follows iteration i (its step and its tick, if any).
AfterIteration(i) == IF KindAt(i + 1) = "tick" THEN KindAt(i + 2) ELSE KindAt(i + 1)

\* What the step leaves when halt is not called.
Unhalted(e) ==
  Cpu(cpu_step(e.before.c @@ [mem |-> e.before.mem, bus |-> <<>>,
                                 frames |-> <<>>, polled |-> <<>>]))

\* The iteration that called cpu_halt is the last one of the history.
LastIteration(i) == i = Len(hist) \/ (i + 1 = Len(hist) /\ KindAt(i + 1) = "tick")

RunStopsAfter(i) ==
  /\ AfterIteration(i) \in {"return", "none"}
  /\ hist[i].after.c \in {Unhalted(hist[i]), cpu_halt(Unhalted(hist[i]))}
  /\ LastIteration(i) => c = cpu_halt(Unhalted(hist[i])) /\ mem = hist[i].after.mem

C22_HaltStopsRun ==
  \A i \in 1..Len(hist) : HaltedDuring(i) => RunStopsAfter(i)

(***************************************************************************)
(* What holds of C22: the statement for every step but a reset step that   *)
(* cpu_halt was called in before _reset cleared the latches; that step     *)
(* ends with the halted latch clear.                                       *)
(***************************************************************************)
ClearedByReset(i) ==
  hist[i].before.c.reset /\ hist[i].halt = "before the step"

C22_HaltStopsRunUnlessReset ==
  \A i \in 1..Len(hist) :
    HaltedDuring(i) =>
      IF ClearedByReset(i)
      THEN hist[i].after.c = Unhalted(hist[i]) /\ ~hist[i].after.c.halted
      ELSE RunStopsAfter(i)

\* cpu_halt called before an instruction's first bus access, with a tick
\* callback installed: the step and its tick complete, then cpu_run returns.
C22_HaltedRunReturns ==
  /\ Len(hist) = 5
  /\ hist[2].kind = "run"
  /\ hist[3].kind = "step" /\ hist[3].halt = "before the step"
  /\ hist[3].after.c.pc # hist[3].before.c.pc
  /\ hist[4].kind = "tick"
  /\ hist[5].kind = "return"

\* The reset step that loses the halt, followed by another instruction.
C22_Witness ==
  \E i \in 1..Len(hist) :
    /\ HaltedDuring(i) /\ ClearedByReset(i)
    /\ AfterIteration(i) = "step"

(***************************************************************************)
(* C23. When Timer-1 is running in continuous mode (ACR bit 6 set) and a   *)
(* tick finds its counter at zero, that tick sets the T1 interrupt flag,   *)
(* reloads the counter with the full 16-bit latch value and leaves the     *)
(* timer running, so that it expires again every latch + 1 ticks until     *)
(* reconfigured: an expiry that follows an earlier one comes exactly       *)
(* latch ticks after the tick of the earlier one, and between expiries the *)
(* counter is the latch less the ticks since.                              *)
(***************************************************************************)
T1Flag(v) == BitAnd(v.ifr, VIA_INT_T1) # 0
T2Flag(v) == BitAnd(v.ifr, VIA_INT_T2) # 0

ContinuousExpiry ==
  (notes'.op = "tick" /\ T1Expiring(dev.via) /\ T1Continuous(dev.via)) =>
    /\ T1Flag(dev'.via)
    /\ dev'.via.t1_counter = dev.via.t1_latch
    /\ dev'.via.t1_running
    /\ notes.since >= 0 => notes.since = dev.via.t1_latch

BetweenExpiries ==
  (notes.since >= 0 /\ dev.via.t1_running /\ T1Continuous(dev.via)) =>
    /\ notes.since <= dev.via.t1_latch
    /\ dev.via.t1_counter = dev.via.t1_latch - notes.since

C23_ContinuousReload == [][ContinuousExpiry]_vars /\ []BetweenExpiries

\* The second expiry in a row of a timer with latch 0x0100: the flag is set,
\* the counter holds the latch again and the timer runs.
C23_Witness ==
  /\ notes.op = "tick" /\ notes.reloads = 2 /\ notes.since = 0
  /\ dev.via.t1_latch = 256 /\ dev.via.t1_counter = 256
  /\ dev.via.t1_running /\ T1Flag(dev.via)

(***************************************************************************)
(* C24. When Timer-1 is in one-shot mode (ACR bit 6 clear) it stops on     *)
(* expiry: after the expiring tick the running flag is clear, and once the *)
(* T1 interrupt flag has been cleared no later tick sets it again, for any *)
(* number of ticks, until the timer is restarted by a write to the T1      *)
(* counter-high register.                                                  *)
(***************************************************************************)
OneShotExpiry ==
  (notes'.op = "tick" /\ T1Expiring(dev.via) /\ ~T1Continuous(dev.via)) =>
    ~dev'.via.t1_running /\ T1Flag(dev'.via)

\* notes.spent: timer 1 expired in one-shot mode and T1CH was not written since.
SpentStaysQuiet ==
  (notes'.op = "tick" /\ notes.spent /\ ~T1Flag(dev.via)) => ~T1Flag(dev'.via)

C24_OneShotStops ==
  /\ [][OneShotExpiry]_vars
  /\ [][SpentStaysQuiet]_vars
  /\ [](notes.spent => ~dev.via.t1_running)

\* A tick after timer 1 expired in one-shot mode and its flag was cleared,
\* the ACR since switched to continuous mode: the flag is still clear.
C24_Witness ==
  /\ notes.op = "tick" /\ notes.spent
  /\ ~T1Flag(dev.via) /\ ~dev.via.t1_running /\ dev.via.t1_counter = 0
  /\ T1Continuous(dev.via)

(***************************************************************************)
(* C26. Reading the serial adapter's STATUS register, any number of times, *)
(* never consumes input and never blocks: the host input stream, the       *)
(* receive latch and the receive-full flag are unchanged by STATUS reads,  *)
(* and the next DATA read returns the same byte it would have returned had *)
(* no STATUS read occurred.                                                *)
(***************************************************************************)
StatusReadDone == notes'.op = "acia_read" /\ notes'.reg % 4 = ACIA_REG_STATUS

StatusReadFrame ==
  StatusReadDone =>
    /\ dev'.input = dev.input
    /\ dev'.acia = dev.acia
    /\ ~notes'.blocks
    /\ acia_read(dev'.acia, dev'.input, ACIA_REG_DATA).value
         = acia_read(dev.acia, dev.input, ACIA_REG_DATA).value

C26_StatusReadConsumesNothing == [][StatusReadFrame]_vars

\* A STATUS read that reported received data with LF, then 0xFF waiting on
\* the input and the latch empty: both bytes are still waiting.
C26_Witness ==
  /\ notes.op = "acia_read" /\ notes.reg = ACIA_REG_STATUS
  /\ notes.value = ACIA_STATUS_TDRE + ACIA_STATUS_RDRF
  /\ dev.input.pending = <<10, 255>> /\ ~dev.acia.rx_full

(***************************************************************************)
(* C29. When a DATA read finds the receive latch empty and receives a byte *)
(* b from the input stream, the byte latched and returned is b with LF     *)
(* (0x0A) translated to CR (0x0D) and then masked to 7 bits, so the        *)
(* returned value always has bit 7 clear.                                  *)
(***************************************************************************)
DataReadReceived ==
  notes.op = "acia_read" /\ notes.reg % 4 = ACIA_REG_DATA /\ notes.got >= 0

LfToCr(b) == IF b = 10 THEN 13 ELSE b

C29_DataReadMasked ==
  DataReadReceived =>
    /\ notes.value = LfToCr(notes.got) % 128
    /\ dev.acia.rx_data = notes.value
    /\ notes.value < 128

\* C29 as the code has it: LF becomes CR and nothing else is changed; the
\* byte is latched and returned with all 8 bits, bit 7 included.
C29_DataReadTranslatesOnly ==
  DataReadReceived =>
    /\ notes.value = LfToCr(notes.got)
    /\ dev.acia.rx_data = notes.value
    /\ ~dev.acia.rx_full

\* A DATA read that received 0x8A and returned it with bit 7 set.
C29_Witness ==
  DataReadReceived /\ notes.got = 138 /\ notes.value = 138 /\ dev.acia.rx_data = 138

(***************************************************************************)
(* C27. Over any sequence of file-I/O commands, the port holds at most one *)
(* open file handle: every OPEN_READ, OPEN_WRITE, RESET and CLOSE closes   *)
(* the previously open handle (exactly once) before any new handle is      *)
(* opened, so no handle is leaked and none is closed twice.                *)
(***************************************************************************)
OpenHandles == {h \in Handles : dev.host.files[h] # "closed"}

C27_OneOpenHandle ==
  /\ OpenHandles = (IF dev.fio.file = 0 THEN {} ELSE {dev.fio.file})
  /\ ~dev.host.double_close

\* An OPEN_W after a file was read to its end: the port holds the new handle
\* alone, and the handle it read from is closed.
C27_Witness ==
  /\ notes.op = "fileio_write" /\ notes.reg = FILEIO_REG_STATUS
  /\ notes.value = FILEIO_CMD_OPEN_W /\ dev.fio.data = 65
  /\ dev.fio.file = 2 /\ dev.host.files = [h \in Handles |-> IF h = 2 THEN "wb" ELSE "closed"]

(***************************************************************************)
(* C25. A bus write to an address that lies inside a protected range and   *)
(* outside every device window is silently dropped: every RAM cell keeps   *)
(* its value and a subsequent bus read of that address returns the value   *)
(* RAM held before the write.                                              *)
(***************************************************************************)
InStoredRange(list, a) == \E i \in 1..Len(list) : list[i].start <= a /\ a <= list[i].end

InDeviceWindow(a) ==
  \/ a \in 49168..49171 \/ a \in 49184..49187
  \/ a \in 49200..49215 \/ a \in 49216..49231

ProtectedWriteDropped ==
  (/\ notes'.op = "machine_write"
   /\ InStoredRange(ranges, notes'.addr)
   /\ ~InDeviceWindow(notes'.addr))
    => /\ mem' = mem
       /\ dev' = dev
       /\ machine_read(mem', dev', notes'.addr).value = test_read(mem, notes'.addr)

C25_ProtectedWriteDropped == [][ProtectedWriteDropped]_vars

\* A write of 0x55 to 0xE000 with the ROM protected: the ROM byte is still
\* there.
C25_Witness ==
  /\ notes.op = "machine_write" /\ notes.addr = 57344 /\ notes.value = 85
  /\ InStoredRange(ranges, 57344)
  /\ test_read(mem, 57344) = 234

(***************************************************************************)
(* C28. remove_range(a, b) applied to a list in which no stored interval   *)
(* intersects [a, b] leaves the list unchanged: same number of intervals,  *)
(* same bounds, same order.                                                *)
(***************************************************************************)
Intersects(node, s, e) == node.start <= e /\ s <= node.end

RemovedDisjoint ==
  /\ lastop.op = "remove"
  /\ \A i \in 1..Len(lastop.before) : ~Intersects(lastop.before[i], lastop.start, lastop.end)

C28_RemoveDisjointIsNoOp == RemovedDisjoint => ranges = lastop.before

\* A removal between two stored intervals, neither of which it touches.
C28_Witness ==
  /\ RemovedDisjoint
  /\ Len(lastop.before) >= 2
  /\ \E i \in 1..Len(lastop.before) : lastop.before[i].end < lastop.start
  /\ \E i \in 1..Len(lastop.before) : lastop.before[i].start > lastop.end

(***************************************************************************)
(* C30. The JMP opcode 0x7C uses absolute indexed indirect addressing: for *)
(* every 16-bit operand w and X, the step sets PC to the little-endian     *)
(* word stored at address (w + X) mod 65536, not to (w + X) itself.        *)
(***************************************************************************)
JmpIndexedSteps == {i \in Steps : OpcodeOf(hist[i]) = 124 /\ hist[i].frames = <<>>}

IndexedOperand(e) == Addr(WordAt(e.before.mem, Addr(e.before.c.pc + 1)) + e.before.c.x)

C30_JmpIndexedIndirect ==
  \A i \in JmpIndexedSteps :
    hist[i].after.c.pc = WordAt(hist[i].before.mem, IndexedOperand(hist[i]))

\* JMP ($30FF,X) with X = 1: PC is 0x3100 itself, not the word stored there.
C30_Witness ==
  \E i \in JmpIndexedSteps :
    /\ hist[i].before.c.x = 1
    /\ IndexedOperand(hist[i]) = 12544
    /\ hist[i].after.c.pc = 12544
    /\ WordAt(hist[i].before.mem, 12544) # 12544

(***************************************************************************)
(* C31. The protected-range list refines a set of addresses: after any     *)
(* sequence of add_range / remove_range operations, the membership test    *)
(* for an address x returns true iff x belongs to the set obtained by      *)
(* applying the same operations in order as set union with [a, b] (add)    *)
(* and set difference with [a, b] (remove), starting from the empty set.   *)
(***************************************************************************)
C31_ListRefinesSet ==
  \A x \in Probes : is_address_in_range_list(ranges, x) <=> x \in lastop.covered

\* A removal after which the list still holds an address that the removal
\* covered.
C31_Witness ==
  /\ lastop.op = "remove"
  /\ \E x \in Probes :
       /\ lastop.start <= x /\ x <= lastop.end
       /\ is_address_in_range_list(ranges, x)

FlagAfterTicks(t, flag) ==
  t.n >= 0 => /\ t.age <= t.n => ~flag
              /\ t.age = t.n + 1 => flag

C33_FlagAtTickNPlusOne ==
  /\ FlagAfterTicks(notes.t1, T1Flag(dev.via))
  /\ FlagAfterTicks(notes.t2, T2Flag(dev.via))

\* Timer 2 started with 257, 258 ticks later: the flag is set.
C33_Witness ==
  /\ notes.op = "tick" /\ notes.t2.n = 257 /\ notes.t2.age = 258
  /\ T2Flag(dev.via)

(***************************************************************************)
(* C34. For every read-modify-write instruction in memory form (ASL, LSR,  *)
(* ROL, ROR, INC, DEC), one step issues exactly one bus read of the        *)
(* effective address followed by exactly one bus write to that same        *)
(* address, with no other access to the effective address and the read     *)
(* ordered before the write.  The accesses meant are those that follow the *)
(* fetch of the opcode and its operand bytes.                              *)
(***************************************************************************)
RmwMemorySteps ==
  {i \in Steps :
     /\ instructions[OpcodeOf(hist[i]) + 1] \in {"ASL", "LSR", "ROL", "ROR", "INC", "DEC"}
     /\ addressings[OpcodeOf(hist[i]) + 1] \in {"ZPG", "ZPX", "ABS", "ABX"}
     /\ hist[i].frames = <<>>}

RmwAddress(e) ==
  LET mode == addressings[OpcodeOf(e) + 1] IN
  CASE mode = "ZPG" -> OperandByte(e, 1)
    [] mode = "ZPX" -> (OperandByte(e, 1) + e.before.c.x) % ByteMod
    [] mode = "ABS" -> WordAt(e.before.mem, Addr(e.before.c.pc + 1))
    [] mode = "ABX" -> Addr(WordAt(e.before.mem, Addr(e.before.c.pc + 1)) + e.before.c.x)

C34_RmwOneReadOneWrite ==
  \A i \in RmwMemorySteps :
    LET e == hist[i]
        n == FetchCount(e)
    IN /\ Len(e.bus) = n + 2
       /\ \A k \in 1..n : e.bus[k] = <<"r", Addr(e.before.c.pc + k - 1)>>
       /\ e.bus[n + 1] = <<"r", RmwAddress(e)>>
       /\ e.bus[n + 2][1] = "w" /\ e.bus[n + 2][2] = RmwAddress(e)

\* ROR $3010: three fetches, then the read and the write of 0x3010.
C34_Witness ==
  \E i \in RmwMemorySteps :
    /\ OpcodeOf(hist[i]) = 110
    /\ hist[i].bus[4] = <<"r", 12304>>
    /\ hist[i].bus[5][1] = "w" /\ hist[i].bus[5][2] = 12304

(***************************************************************************)
(* C35. JMP absolute (0x4C) and JSR (0x20) never issue a bus read of their *)
(* target address: the only bus reads in the step are the opcode and the   *)
(* two operand bytes, so jumping to or calling an address inside a device  *)
(* window triggers no device read side effect.                             *)
(***************************************************************************)
JumpSteps == {i \in Steps : OpcodeOf(hist[i]) \in {76, 32} /\ hist[i].frames = <<>>}

JumpTarget(e) == WordAt(e.before.mem, Addr(e.before.c.pc + 1))

C35_JumpReadsOnlyItsBytes ==
  \A i \in JumpSteps :
    Reads(hist[i]) = [k \in 1..3 |-> <<"r", Addr(hist[i].before.c.pc + k - 1)>>]

\* JSR $3010 that read the byte at 0x3010 after its three fetches.
C35_Witness ==
  \E i \in JumpSteps :
    /\ OpcodeOf(hist[i]) = 32
    /\ JumpTarget(hist[i]) = 12304
    /\ hist[i].after.c.pc = 12304
    /\ Len(Reads(hist[i])) = 4 /\ Reads(hist[i])[4] = <<"r", 12304>>

(***************************************************************************)
(* C36. The accumulator-mode opcodes 0x1A (INC A) and 0x3A (DEC A) change  *)
(* only A, the N and Z flags and PC: A becomes (A + 1) mod 256             *)
(* respectively (A - 1) mod 256, and the step issues no bus write to any   *)
(* memory address.                                                         *)
(***************************************************************************)
AccumulatorSteps == {i \in Steps : OpcodeOf(hist[i]) \in {26, 58} /\ hist[i].frames = <<>>}

\* The status register without its N (bit 7) and Z (bit 1) flags.
WithoutNZ(sr) == BitAnd(sr, ByteMod - 1 - 128 - 2)

C36_IncDecAccumulator ==
  \A i \in AccumulatorSteps :
    LET e == hist[i]
        delta == IF OpcodeOf(e) = 26 THEN 1 ELSE ByteMod - 1
    IN /\ e.after.c.a = (e.before.c.a + delta) % ByteMod
       /\ e.after.c.x = e.before.c.x /\ e.after.c.y = e.before.c.y
       /\ e.after.c.sp = e.before.c.sp
       /\ WithoutNZ(e.after.c.sr) = WithoutNZ(e.before.c.sr)
       /\ e.after.c.pc = Addr(e.before.c.pc + 1)
       /\ e.after.mem = e.before.mem
       /\ \A k \in 1..Len(e.bus) : e.bus[k][1] = "r"

\* INC A with A = 0 that left A at 0 and wrote 1 to address 0.
C36_Witness ==
  \E i \in AccumulatorSteps :
    /\ OpcodeOf(hist[i]) = 26
    /\ hist[i].before.c.a = 0 /\ hist[i].after.c.a = 0
    /\ \E k \in 1..Len(hist[i].bus) : hist[i].bus[k] = <<"w", 0, 1>>

(***************************************************************************)
(* C37. Opcode 0x28 executes PLP: the step increments SP by one (modulo    *)
(* 256), loads SR from memory[0x0100 + SP] while keeping the live values   *)
(* of bits 4 and 5, and writes nothing to the stack; consequently PHP      *)
(* (0x08) followed by PLP (0x28) leaves SP and SR unchanged.               *)
(***************************************************************************)
PlpSteps == {i \in Steps : OpcodeOf(hist[i]) = 40 /\ hist[i].frames = <<>>}

\* Bits 4 and 5 of live, the other bits of pulled.
KeepingBits45(pulled, live) == BitAnd(pulled, ByteMod - 1 - 48) + BitAnd(live, 48)

C37_Opcode28Pulls ==
  \A i \in PlpSteps :
    LET e == hist[i] IN
    /\ e.after.c.sp = (e.before.c.sp + 1) % ByteMod
    /\ e.after.c.sr = KeepingBits45(StackAt(e.before.mem, e.after.c.sp), e.before.c.sr)
    /\ \A k \in 1..Len(e.bus) : e.bus[k][1] = "r"
    /\ (i - 1 \in Steps /\ OpcodeOf(hist[i - 1]) = 8 /\ Consecutive(i - 1))
         => /\ e.after.c.sp = hist[i - 1].before.c.sp
            /\ e.after.c.sr = hist[i - 1].before.c.sr

\* A step of opcode 0x28 that pushed: SP went down by one and the status
\* byte was written to the stack.
C37_Witness ==
  \E i \in PlpSteps :
    /\ hist[i].after.c.sp = (hist[i].before.c.sp + ByteMod - 1) % ByteMod
    /\ \E k \in 1..Len(hist[i].bus) :
         /\ hist[i].bus[k][1] = "w"
         /\ hist[i].bus[k][2] = 256 + hist[i].before.c.sp

(***************************************************************************)
(* C40. cpu_write_address and cpu_read_address are inverse on plain RAM:   *)
(* for every address a and 16-bit value v, cpu_write_address(a, v)         *)
(* followed by cpu_read_address(a) returns v, with the low byte of v       *)
(* stored at a and the high byte at a + 1 (little-endian).                 *)
(***************************************************************************)
C40_WriteReadAddress ==
  notes.op = "cpu_read_address" =>
    /\ notes.got = notes.value
    /\ test_read(mem, notes.addr) = notes.value % ByteMod
    /\ test_read(mem, Addr(notes.addr + 1)) = notes.value \div ByteMod

\* The word 0x1234 written at 0x0200 and read back as 0x3400: 0x00 at
\* 0x0200 and 0x34 at 0x0201.
C40_Witness ==
  /\ notes.op = "cpu_read_address" /\ notes.addr = ProgramStart /\ notes.value = 4660
  /\ notes.got = 13312
  /\ test_read(mem, ProgramStart) = 0 /\ test_read(mem, ProgramStart + 1) = 52

TransferCommand ==
  /\ notes'.op = "fileio_write"
  /\ notes'.reg = FILEIO_REG_STATUS
  /\ notes'.value \in {FILEIO_CMD_READ, FILEIO_CMD_WRITE}

TransferWithoutFile ==
  TransferCommand =>
    /\ dev.fio.file = 0 =>
         /\ BitAnd(dev'.fio.status, FILEIO_STATUS_ERR) # 0
         /\ dev'.fio.status = BitOr(dev.fio.status, FILEIO_STATUS_ERR)
         /\ dev'.fio.data = dev.fio.data
         /\ dev'.fio.file = 0
         /\ dev'.host = dev.host
    /\ BitAnd(dev.fio.status, FILEIO_STATUS_ERR) # 0 =>
         BitAnd(dev'.fio.status, FILEIO_STATUS_ERR) # 0

====
